---- MODULE Spec2Model ----
(***************************************************************************)
(* A model of the ffutil stepper engine (ffutil/stepper/stepper.py,        *)
(* stepper_extensions.py) as specialised by SnifyStepper                   *)
(* (ffutil/snify/snifystepper.py), together with the external process that *)
(* may edit the documents while the stepper runs.                          *)
(* The second specification, CatalogSpec, models the Trie and Catalog of   *)
(* ffutil/snify/catalog.py and the scan for the first match over them.     *)
(* SessionSpec runs the stepper from any saved State, with the catalog     *)
(* source changing underneath it, up to what snify() does with the session *)
(* after run().  InterfaceSpec models the big info page of                 *)
(* ffutil/stepper/interface.py, and FocusSpec the States the focus         *)
(* Commands of ffutil/snify/snify_commands.py build.  SkipSpec and         *)
(* SkipOnlySpec run a session from cursor (0, 0) in which the user only    *)
(* skips, leaves files or enters Commands without outcome, and ImportSpec  *)
(* executes an ImportCommand and applies what it returns.                  *)
(*                                                                         *)
(* Python values are encoded as follows.                                   *)
(*   text            a sequence of one-character strings                   *)
(*   SnifyCursor     [document_index, selection]; selection is <<n>> for   *)
(*                   an int offset and <<a, b>> for a range tuple          *)
(*   Document        [content, language]; a document is identified by its  *)
(*                   index in state.documents                              *)
(*   CommandOutcome  [kind |-> "SetCursor" | "Quit" | "Substitution" |     *)
(*                    "Rescan" | "Focus", ...]                             *)
(*   Modification    [kind |-> "cursor" | "doc", id, ...]; id stands for   *)
(*                   the identity of the Python object                     *)
(***************************************************************************)
EXTENDS Integers, Sequences, FiniteSets, TLC

VARIABLES
    cursor,                      \* state.cursor
    documents,                   \* state.documents (with their contents)
    current_annotation_choices,  \* SnifyStepper.current_annotation_choices
    modification_history,        \* Stepper.modification_history
    modification_future,         \* Stepper.modification_future
    pc,                          \* position of the stepper's single thread
    outcomes,                    \* _single_iteration: outcomes
    idx,                         \* _single_iteration: number of outcomes consumed by the for loop
    new_modifications,           \* _single_iteration: new_modifications
    modification,                \* _single_iteration: modification (handled, not yet applied)
    stop_reason,                 \* argument of the StopStepper in flight / caught by run()
    error,                       \* the exception that left run(), or "none"
    run_return,                  \* what run() returned, or "running"
    command,                     \* the Command resolved by the dispatch of this iteration
    calls,                       \* observer: handler/apply/unapply calls of the current operation
    next_id,                     \* observer: next Modification object identity
    next_stamp,                  \* observer: next push number
    before,                      \* observer: snapshot taken when the current operation began
    last_ops,                    \* observer: the stepper operations completed most recently
    iterations,                  \* number of iterations started
    undo_redos,                  \* number of undo/redo operations performed
    external_edits,              \* number of external edits performed
    collection,                  \* the CommandCollection built for this iteration
    dispatched,                  \* observer: the line that was resolved, the index of the
                                 \* Command executed and the error its execute reported
    unmatched,                   \* observer: errors reported for unmatched lines in this apply()
    trie,                        \* a Trie (catalog.py), as built by the inserts so far
    inserted,                    \* observer: the inserts made into trie, in order
    scanned,                     \* observer: the last scan of a text against trie
    stex_catalogs,               \* the cache of SnifyStepper.get_stex_catalogs (functools.cache)
    catalog_builds,              \* observer: number of calls of local_flams_stex_catalogs()
    returned_catalogs,           \* observer: the catalog sets the lookups have returned
    catalog_source,              \* the stream local_flams_stex_catalogs() would enumerate now
    steps,                       \* observer: the steps of the current iteration, in order
    collection_built,            \* observer: when and from what the collection was constructed
    confirmations,               \* observer: await_confirmation calls of the last
                                 \* ensure_state_up_to_date
    session,                     \* snify(): what was done with the session after run()
    interface,                   \* actual_interface: its kind, _in_big_infopage,
                                 \* _big_infopage_content and what it has output so far
    page,                        \* position relative to a with interface.big_infopage() block
    last_exit,                   \* observer: how the last with block was left
    acquire_error,               \* the exception the last acquisition raised, or "none"
    acquisitions,                \* number of acquisitions attempted
    heap,                        \* the Document objects: heap[id] is the object with identity id
    state_documents,             \* state.documents as the list of the identities of its objects
    new_state,                   \* the State a focus Command handed to the sub-session
    focuses                      \* number of focus Commands executed

vars == <<cursor, documents, current_annotation_choices, modification_history,
          modification_future, pc, outcomes, idx, new_modifications, modification,
          stop_reason, error, run_return, command, calls, next_id, next_stamp,
          before, last_ops, iterations, undo_redos, external_edits,
          collection, dispatched, unmatched, trie, inserted, scanned,
          stex_catalogs, catalog_builds, returned_catalogs, catalog_source,
          steps, collection_built, confirmations, session,
          interface, page, last_exit, acquire_error, acquisitions,
          heap, state_documents, new_state, focuses>>

dispatch_vars == <<collection, dispatched, unmatched>>

catalog_vars == <<trie, inserted, scanned>>

cache_vars == <<stex_catalogs, catalog_builds, returned_catalogs>>

interface_vars == <<interface, page, last_exit, acquire_error, acquisitions>>

focus_vars == <<heap, state_documents, new_state, focuses>>

\* what only the environment of run() changes
aux_vars == <<catalog_source, session, interface_vars, focus_vars>>

\* the stepper session and the catalog under construction
session_vars ==
    <<cursor, documents, current_annotation_choices, modification_history,
      modification_future, pc, outcomes, idx, new_modifications, modification,
      stop_reason, error, run_return, command, calls, next_id, next_stamp,
      before, last_ops, iterations, undo_redos, external_edits,
      collection, dispatched, unmatched, trie, inserted, scanned,
      stex_catalogs, catalog_builds, returned_catalogs, catalog_source,
      steps, collection_built, confirmations, session>>

stepper_vars == <<cursor, current_annotation_choices, modification_history,
                  modification_future, pc, outcomes, idx, new_modifications,
                  modification, stop_reason, error, run_return, command>>

(***************************************************************************)
(* Bounds of the model.                                                    *)
(***************************************************************************)
MaxIterations == 2
MaxUndoRedos == 2
MaxExternalEdits == 1
MaxOutcomes == 2
MaxUnmatched == 1
MaxInserts == 3
MaxKeyLen == 2
MaxOutput == 3
MaxAcquisitions == 2
MaxFocuses == 2
MaxSkips == 5

(***************************************************************************)
(* Python sequence helpers.                                                *)
(***************************************************************************)
Min(a, b) == IF a <= b THEN a ELSE b

\* s[:n] for n >= 0
Take(s, n) == SubSeq(s, 1, Min(n, Len(s)))

\* s[n:] for n >= 0
Drop(s, n) == SubSeq(s, n + 1, Len(s))

Reverse(s) == [i \in 1..Len(s) |-> s[Len(s) + 1 - i]]

Last(s) == s[Len(s)]

Front(s) == SubSeq(s, 1, Len(s) - 1)

None == [kind |-> "None"]

(***************************************************************************)
(* Cursors.                                                                *)
(***************************************************************************)
SnifyCursor(document_index, selection) ==
    [document_index |-> document_index, selection |-> selection]

\* isinstance(cursor.selection, int)
IsOffset(selection) == Len(selection) = 1

(***************************************************************************)
(* The matching collaborator.  Words are the maximal runs of non-blank     *)
(* characters; a vocabulary entry is a sequence of words.                  *)
(***************************************************************************)
IsWordChar(c) == c # " "

WordStarts(text) ==
    {i \in 1..Len(text) : IsWordChar(text[i]) /\ (i = 1 \/ ~IsWordChar(text[i - 1]))}

WordEnd(text, i) ==
    CHOOSE j \in i..Len(text) :
        /\ \A k \in i..j : IsWordChar(text[k])
        /\ (j = Len(text) \/ ~IsWordChar(text[j + 1]))

\* the words of text in left-to-right order with their half-open 0-based spans
Tokens(text) ==
    LET starts == WordStarts(text)
        nth(k) == CHOOSE s \in starts : Cardinality({t \in starts : t < s}) = k - 1
    IN  [k \in 1..Cardinality(starts) |->
            [start |-> nth(k) - 1,
             end   |-> WordEnd(text, nth(k)),
             word  |-> SubSeq(text, nth(k), WordEnd(text, nth(k)))]]

\* the stem of a word: a plural "s" is stripped
Stem(word, lang) ==
    IF Len(word) > 1 /\ Last(word) = "s" THEN Front(word) ELSE word

\* string_to_stemmed_word_sequence_simplified(string, lang)
StemmedWordSequence(string, lang) ==
    LET tokens == Tokens(string)
    IN  [k \in 1..Len(tokens) |-> Stem(tokens[k].word, lang)]

(***************************************************************************)
(* Trie (catalog.py).  A Trie is the function from the key paths of its    *)
(* nodes to the nodes' verbs; the root is the path <<>>.  verbs, a dict    *)
(* from symbol to list, is the sequence of its items [symb, verbs] in the  *)
(* dict's (first insertion) order.                                         *)
(***************************************************************************)
EmptyTrie == [path \in {<<>>} |-> <<>>]

\* the prefixes of a key, the key itself and <<>> included
Prefixes(key) == {SubSeq(key, 1, n) : n \in 0..Len(key)}

\* symb in verbs
HasSymbol(verbs, symb) == \E i \in DOMAIN verbs : verbs[i].symb = symb

\* verbs[symb]
VerbsOf(verbs, symb) == verbs[CHOOSE i \in DOMAIN verbs : verbs[i].symb = symb].verbs

\* an insert that replaces the entry list of the symbol
SetDefaultReplace(verbs, symb, verb) ==
    IF HasSymbol(verbs, symb)
    THEN [i \in DOMAIN verbs |->
            IF verbs[i].symb = symb THEN [verbs[i] EXCEPT !.verbs = <<verb>>] ELSE verbs[i]]
    ELSE Append(verbs, [symb |-> symb, verbs |-> <<verb>>])

\* an insert that puts the new entry in front of the symbol's list
SetDefaultPrepend(verbs, symb, verb) ==
    IF HasSymbol(verbs, symb)
    THEN [i \in DOMAIN verbs |->
            IF verbs[i].symb = symb THEN [verbs[i] EXCEPT !.verbs = <<verb>> \o @] ELSE verbs[i]]
    ELSE Append(verbs, [symb |-> symb, verbs |-> <<verb>>])

\* verbs.setdefault(symb, []).append(verb)
SetDefaultAppend(verbs, symb, verb) ==
    IF HasSymbol(verbs, symb)
    THEN [i \in DOMAIN verbs |->
            IF verbs[i].symb = symb THEN [verbs[i] EXCEPT !.verbs = Append(@, verb)] ELSE verbs[i]]
    ELSE Append(verbs, [symb |-> symb, verbs |-> <<verb>>])

\* Trie.insert(key, symb, verb): the missing nodes of the path are created,
\* then the entry is appended at the last node
TrieInsert(t, key, symb, verb) ==
    LET walked == [path \in DOMAIN t \cup Prefixes(key) |->
                       IF path \in DOMAIN t THEN t[path] ELSE <<>>]
    IN  [walked EXCEPT ![key] = SetDefaultAppend(@, symb, verb)]

\* a lookup that falls back to the deepest node of the path that exists
TrieGetPrefixFallback(t, key) ==
    LET found == {n \in 0..Len(key) : \A m \in 0..n : SubSeq(key, 1, m) \in DOMAIN t}
        deepest == CHOOSE n \in found : \A m \in found : m <= n
    IN  t[SubSeq(key, 1, deepest)]

\* Trie.get(key): {} as soon as a child is missing, else the verbs of the last node
TrieGet(t, key) ==
    IF \E n \in 1..Len(key) : SubSeq(key, 1, n) \notin DOMAIN t
    THEN <<>>
    ELSE t[key]

\* Catalog.add_symbverb(symb, verb)
AddSymbverb(t, lang, symb, verb) ==
    TrieInsert(t, StemmedWordSequence(verb, lang), symb, verb)

\* the stream of (lang, symb, verb) triples the session's catalogs are built from
CatalogStream ==
    << <<"en", "sym1", <<"b">> >>,
       <<"en", "sym2", <<"b", " ", "b">> >>,
       <<"en", "sym3", <<"b", "s">> >> >>

\* catalogs_from_stream(stream): the Trie (Catalog.lookup) of each language
RECURSIVE CatalogsFromStream(_)
CatalogsFromStream(stream) ==
    IF stream = <<>> THEN [lang \in {} |-> EmptyTrie]
    ELSE LET catalogs == CatalogsFromStream(Front(stream))
             lang == Last(stream)[1]
             old  == IF lang \in DOMAIN catalogs THEN catalogs[lang] ELSE EmptyTrie
         IN  [l \in DOMAIN catalogs \cup {lang} |->
                 IF l = lang THEN AddSymbverb(old, lang, Last(stream)[2], Last(stream)[3])
                 ELSE catalogs[l]]

\* get_stex_catalogs()
StexCatalogs == CatalogsFromStream(CatalogStream)

(***************************************************************************)
(* The scan of a text against a catalog (find_first_match).  ignore is the *)
(* record of the three ignore sets.                                        *)
(***************************************************************************)
NoIgnore == [stems |-> {}, words |-> {}, symbols |-> {}]

\* options that keep the ignored symbols
RECURSIVE OptionsUnfiltered(_, _)
OptionsUnfiltered(verbs, symbols_to_ignore) ==
    IF verbs = <<>> THEN <<>>
    ELSE OptionsUnfiltered(Front(verbs), symbols_to_ignore)
         \o [j \in DOMAIN Last(verbs).verbs |-> <<Last(verbs).symb, Last(verbs).verbs[j]>>]

\* the (symbol, entry) pairs of a node in the order of its mapping, without
\* the symbols to ignore
RECURSIVE Options(_, _)
Options(verbs, symbols_to_ignore) ==
    IF verbs = <<>> THEN <<>>
    ELSE Options(Front(verbs), symbols_to_ignore)
         \o (IF Last(verbs).symb \in symbols_to_ignore THEN <<>>
             ELSE [j \in DOMAIN Last(verbs).verbs |-> <<Last(verbs).symb, Last(verbs).verbs[j]>>])

\* the stemmed words tokens[i .. i+k-1]
KeyAt(tokens, i, k, lang) == [j \in 1..k |-> Stem(tokens[i + j - 1].word, lang)]

\* the literal text of the words tokens[i .. i+k-1]
SurfaceAt(text, tokens, i, k) == SubSeq(text, tokens[i].start + 1, tokens[i + k - 1].end)

\* the candidate list of the window of k words starting at word i
Candidates(catalog, lang, text, tokens, i, k, ignore) ==
    LET key == KeyAt(tokens, i, k, lang)
    IN  IF (\A j \in 1..k : key[j] \in ignore.stems)
           \/ SurfaceAt(text, tokens, i, k) \in ignore.words
        THEN <<>>
        ELSE Options(TrieGet(catalog, key), ignore.symbols)

\* a scan that only tries the first word as start
StartWordsFirstOnly(tokens) == {i \in DOMAIN tokens : i = 1}

\* the candidate start words
StartWords(tokens) == DOMAIN tokens

\* the viable windows <<start word, number of words>>
Viable(catalog, lang, text, tokens, ignore) ==
    {ik \in StartWords(tokens) \X (1..Len(tokens)) :
        /\ ik[1] + ik[2] - 1 <= Len(tokens)
        /\ Candidates(catalog, lang, text, tokens, ik[1], ik[2], ignore) # <<>>}

\* a winner that is the shortest window at the smallest start
WinnerShortest(viable) ==
    CHOOSE p \in viable : \A q \in viable : p[1] < q[1] \/ (p[1] = q[1] /\ p[2] <= q[2])

\* a winner that is the longest window, the leftmost among the longest
WinnerLongest(viable) ==
    CHOOSE p \in viable : \A q \in viable : p[2] > q[2] \/ (p[2] = q[2] /\ p[1] <= q[1])

\* smallest start, then most words
Winner(viable) ==
    CHOOSE p \in viable : \A q \in viable : p[1] < q[1] \/ (p[1] = q[1] /\ p[2] >= q[2])

\* catalog.find_first_match(string, stems_to_ignore, words_to_ignore, symbols_to_ignore)
FindFirstMatch(catalog, lang, text, ignore) ==
    LET tokens == Tokens(text)
        viable == Viable(catalog, lang, text, tokens, ignore)
    IN  IF viable = {} THEN None
        ELSE LET ik == Winner(viable)
             IN  [kind    |-> "Match",
                  start   |-> tokens[ik[1]].start,
                  stop    |-> tokens[ik[1] + ik[2] - 1].end,
                  options |-> Candidates(catalog, lang, text, tokens, ik[1], ik[2], ignore)]

(***************************************************************************)
(* SnifyState and the catalog lookup of SnifyStepper.                      *)
(***************************************************************************)
Document(content, language) == [content |-> content, language |-> language]

\* the catalog source after files it is built from were modified externally
CatalogStreamModified ==
    << <<"en", "sym1", <<"b">> >>,
       <<"en", "sym4", <<"x">> >> >>

\* local_flams_stex_catalogs(): the catalog source is enumerated and the
\* Catalogs are built from it
LocalFlamsStexCatalogs(source) == CatalogsFromStream(source)

NotCached == None

Cached(value) == [kind |-> "Cached", value |-> value]

\* one call of a get_stex_catalogs that is not cached
GetStexCatalogsUncached(cache, source) ==
    [value |-> LocalFlamsStexCatalogs(source),
     cache |-> Cached(LocalFlamsStexCatalogs(source)),
     built |-> 1]

\* one call of get_stex_catalogs() under functools.cache: the value returned,
\* the cache afterwards, and the number of calls of the wrapped function
GetStexCatalogs(cache, source) ==
    IF cache.kind = "None"
    THEN [value |-> LocalFlamsStexCatalogs(source),
          cache |-> Cached(LocalFlamsStexCatalogs(source)),
          built |-> 1]
    ELSE [value |-> cache.value, cache |-> cache, built |-> 0]

\* n successive calls of get_stex_catalogs(): the value the last call returned,
\* the cache afterwards, the number of builds and the set of values returned
RECURSIVE Lookups(_, _, _)
Lookups(cache, source, n) ==
    IF n = 0 THEN [value |-> None, cache |-> cache, built |-> 0, returned |-> {}]
    ELSE LET earlier == Lookups(cache, source, n - 1)
             call    == GetStexCatalogs(earlier.cache, source)
         IN  [value    |-> call.value,
              cache    |-> call.cache,
              built    |-> earlier.built + call.built,
              returned |-> earlier.returned \cup {call.value}]

\* get_catalog_for_document(doc) is not None
HasCatalog(catalogs, doc) == DOMAIN catalogs # {} /\ doc.language \in DOMAIN catalogs

\* the exception get_current_document() raises, or "none"
GetCurrentDocumentError(cur, docs) ==
    IF Len(docs) = 0 THEN "ValueError"
    ELSE IF cur.document_index >= Len(docs) THEN "IndexError"
    ELSE "none"

\* state.documents[i]
DocumentAt(docs, i) == docs[i + 1]

\* doc.get_annotatable_segments(): the maximal stretches of the content
\* without the separator "|", in order, with their half-open 0-based spans
SegmentStarts(content) ==
    {i \in 1..Len(content) : content[i] # "|" /\ (i = 1 \/ content[i - 1] = "|")}

SegmentEnd(content, i) ==
    CHOOSE j \in i..Len(content) :
        /\ \A k \in i..j : content[k] # "|"
        /\ (j = Len(content) \/ content[j + 1] = "|")

Segments(content) ==
    LET starts == SegmentStarts(content)
        nth(k) == CHOOSE s \in starts : Cardinality({t \in starts : t < s}) = k - 1
    IN  [k \in 1..Cardinality(starts) |->
            [start |-> nth(k) - 1, end |-> SegmentEnd(content, nth(k))]]

\* the part of a segment the scan looks at: the whole segment, or the part
\* from the cursor offset when the offset lies inside it
SegmentFrom(segment, offset) ==
    IF offset >= segment.start THEN offset ELSE segment.start

\* a match of find_first_match in the part of the content from start on, as
\* a range of the document
MatchFrom(first_match, start) ==
    IF first_match.kind = "None" THEN None
    ELSE [kind      |-> "Match",
          selection |-> <<start + first_match.start, start + first_match.stop>>,
          options   |-> first_match.options]

\* find_first_match on the part of a segment from the offset on
SegmentMatch(catalog, lang, content, segment, offset) ==
    CHOOSE m \in { MatchFrom(first_match, SegmentFrom(segment, offset)) :
                       first_match \in { FindFirstMatch(catalog, lang,
                                             SubSeq(content, SegmentFrom(segment, offset) + 1,
                                                    segment.end),
                                             NoIgnore) } } : TRUE

\* the for loop over the segments from the k-th on: a segment that ends
\* before the cursor is passed over, as is one without a match; the first
\* match found ends the loop
RECURSIVE MatchInSegments(_, _, _, _, _, _)
MatchInSegments(catalog, lang, content, segments, k, offset) ==
    IF k > Len(segments) THEN None
    ELSE CHOOSE found \in
             { IF m.kind = "None"
               THEN MatchInSegments(catalog, lang, content, segments, k + 1, offset)
               ELSE m :
                   m \in { IF segments[k].end <= offset THEN None
                           ELSE SegmentMatch(catalog, lang, content, segments[k], offset) } } :
             TRUE

\* a loop that goes through the segments from the last to the first
MatchInDocumentReversed(catalogs, doc, offset) ==
    MatchInSegments(catalogs[doc.language], doc.language, doc.content,
                    Reverse(Segments(doc.content)), 1, offset)

\* the for loop over the annotatable segments of one document
MatchInDocument(catalogs, doc, offset) ==
    MatchInSegments(catalogs[doc.language], doc.language, doc.content,
                    Segments(doc.content), 1, offset)

\* the while loop of ensure_state_up_to_date from the local cursor
\* (document_index, offset); visited is the list of the documents the loop
\* looked a catalog up for
\* a loop that gives up at the first document without a catalog
ScanDocumentsStopsWithoutCatalog(catalogs, docs, document_index, offset, visited) ==
    IF document_index >= Len(docs) THEN [kind |-> "None", visited |-> visited]
    ELSE LET doc == DocumentAt(docs, document_index)
             seen == Append(visited, document_index)
         IN  IF ~HasCatalog(catalogs, doc)
             THEN [kind |-> "None", visited |-> seen]
             ELSE LET m == MatchInDocument(catalogs, doc, offset)
                  IN  IF m.kind = "None"
                      THEN [kind |-> "None", visited |-> seen]
                      ELSE [kind    |-> "Found",
                            cursor  |-> SnifyCursor(document_index, m.selection),
                            options |-> m.options,
                            visited |-> seen]

RECURSIVE ScanDocuments(_, _, _, _, _)
ScanDocuments(catalogs, docs, document_index, offset, visited) ==
    IF document_index >= Len(docs) THEN [kind |-> "None", visited |-> visited]
    ELSE LET doc == DocumentAt(docs, document_index)
             seen == Append(visited, document_index)
         IN  IF ~HasCatalog(catalogs, doc)
             THEN ScanDocuments(catalogs, docs, document_index + 1, 0, seen)
             ELSE LET m == MatchInDocument(catalogs, doc, offset)
                  IN  IF m.kind = "None"
                      THEN ScanDocuments(catalogs, docs, document_index + 1, 0, seen)
                      ELSE [kind    |-> "Found",
                            cursor  |-> SnifyCursor(document_index, m.selection),
                            options |-> m.options,
                            visited |-> seen]

\* the documents of a scan for which get_catalog_for_document reported an
\* error and awaited a confirmation
WithoutCatalog(catalogs, docs, visited) ==
    {i \in DOMAIN visited : ~HasCatalog(catalogs, DocumentAt(docs, visited[i]))}

(***************************************************************************)
(* Command outcomes and modifications.                                     *)
(***************************************************************************)
QuitOutcome == [kind |-> "Quit"]

RescanOutcome == [kind |-> "Rescan"]

FocusOutcome == [kind |-> "Focus"]

SetCursorOutcome(new_cursor) == [kind |-> "SetCursor", new_cursor |-> new_cursor]

SubstitutionOutcome(new_str, start_pos, end_pos) ==
    [kind |-> "Substitution", new_str |-> new_str, start_pos |-> start_pos, end_pos |-> end_pos]

CursorModification(id, old_cursor, new_cursor) ==
    [kind |-> "cursor", id |-> id, old_cursor |-> old_cursor, new_cursor |-> new_cursor]

DocumentModification(id, document, old_text, new_text) ==
    [kind |-> "doc", id |-> id, document |-> document, old_text |-> old_text, new_text |-> new_text]

\* the part of the session a Modification acts on
State(cur, docs) == [cursor |-> cur, documents |-> docs]

\* an apply that sets the wrong cursor
CursorApplyOld(m, state) == [state EXCEPT !.cursor = m.old_cursor]

\* an apply of a cursor Modification that also empties the documents
CursorApplyTouchesDocument(m, state) ==
    [cursor |-> m.new_cursor,
     documents |-> [d \in DOMAIN state.documents |->
                        [state.documents[d] EXCEPT !.content = <<>>]]]

CursorApply(m, state) == [state EXCEPT !.cursor = m.new_cursor]

\* an unapply that restores the wrong cursor
CursorUnapplyNew(m, state) == [state EXCEPT !.cursor = m.new_cursor]

CursorUnapply(m, state) == [state EXCEPT !.cursor = m.old_cursor]

\* the staleness check of a text substitution: the write is aborted when the
\* document no longer holds the expected snapshot
IsStale(content, expected) == content # expected

DocApply(m, state) ==
    IF IsStale(state.documents[m.document + 1].content, m.old_text) THEN state
    ELSE [state EXCEPT !.documents[m.document + 1].content = m.new_text]

DocUnapply(m, state) ==
    IF IsStale(state.documents[m.document + 1].content, m.new_text) THEN state
    ELSE [state EXCEPT !.documents[m.document + 1].content = m.old_text]

\* modification.apply(self.state)
ApplyModification(m, state) ==
    IF m.kind = "cursor" THEN CursorApply(m, state) ELSE DocApply(m, state)

\* modification.unapply(self.state)
UnapplyModification(m, state) ==
    IF m.kind = "cursor" THEN CursorUnapply(m, state) ELSE DocUnapply(m, state)

\* whether apply / unapply of m in state is aborted by the staleness check
ApplyAborts(m, state) ==
    m.kind = "doc" /\ IsStale(state.documents[m.document + 1].content, m.old_text)

UnapplyAborts(m, state) ==
    m.kind = "doc" /\ IsStale(state.documents[m.document + 1].content, m.new_text)

(***************************************************************************)
(* handle_command_outcome: the chain SnifyStepper -> QuittableStepper ->   *)
(* CursorModifyingStepper -> Stepper given by the method resolution order. *)
(* A handler returns a Modification or raises.                             *)
(***************************************************************************)
Returned(value) == [tag |-> "return", value |-> value]

Raised(exception, arg) == [tag |-> "raise", exception |-> exception, arg |-> arg]

\* the handlers of SnifyStepper in method resolution order
HandlerChain == <<"SnifyStepper", "QuittableStepper", "CursorModifyingStepper", "Stepper">>

\* the handler returns or raises by itself
Consumes(handler, result) == result @@ [by |-> handler, entered |-> <<handler>>]

\* the handler returns super().handle_command_outcome(outcome)
Delegates(handler, result) == [result EXCEPT !.entered = <<handler>> \o @]

\* a base handler that skips the outcome
StepperHandleSkips(outcome, state, id) == Consumes("Stepper", Returned(None))

StepperHandle(outcome, state, id) ==
    Consumes("Stepper", Raised("NotImplementedError", outcome.kind))

\* a cursor handler that does not capture the current cursor
CursorModifyingHandleNoOld(outcome, state, id) ==
    IF outcome.kind = "SetCursor"
    THEN Consumes("CursorModifyingStepper",
                  Returned(CursorModification(id, outcome.new_cursor, outcome.new_cursor)))
    ELSE Delegates("CursorModifyingStepper", StepperHandle(outcome, state, id))

CursorModifyingHandle(outcome, state, id) ==
    IF outcome.kind = "SetCursor"
    THEN Consumes("CursorModifyingStepper",
                  Returned(CursorModification(id, state.cursor, outcome.new_cursor)))
    ELSE Delegates("CursorModifyingStepper", StepperHandle(outcome, state, id))

\* a quit handler that also takes the cursor-set outcomes and drops them
QuittableHandleTakesCursor(outcome, state, id) ==
    IF outcome.kind = "Quit" THEN Consumes("QuittableStepper", Raised("StopStepper", "quit"))
    ELSE IF outcome.kind = "SetCursor" THEN Consumes("QuittableStepper", Returned(None))
    ELSE Delegates("QuittableStepper", CursorModifyingHandle(outcome, state, id))

QuittableHandle(outcome, state, id) ==
    IF outcome.kind = "Quit" THEN Consumes("QuittableStepper", Raised("StopStepper", "quit"))
    ELSE Delegates("QuittableStepper", CursorModifyingHandle(outcome, state, id))

\* doc.get_content()[:start_pos] + new_str + doc.get_content()[end_pos:]
Substitute(content, outcome) ==
    Take(content, outcome.start_pos) \o outcome.new_str \o Drop(content, outcome.end_pos)

\* a substitution whose old and new text are exchanged
SubstitutionModificationSwapped(outcome, state, id) ==
    LET content == DocumentAt(state.documents, state.cursor.document_index).content
    IN  DocumentModification(id, state.cursor.document_index,
                             Substitute(content, outcome), content)

\* DocumentModification(doc, old_text=..., new_text=...) for the current document
SubstitutionModification(outcome, state, id) ==
    LET content == DocumentAt(state.documents, state.cursor.document_index).content
    IN  DocumentModification(id, state.cursor.document_index,
                             content, Substitute(content, outcome))

SnifyHandle(outcome, state, id) ==
    LET doc_error == GetCurrentDocumentError(state.cursor, state.documents)
    IN  IF doc_error # "none" THEN Consumes("SnifyStepper", Raised(doc_error, ""))
        ELSE IF outcome.kind = "Substitution"
        THEN Consumes("SnifyStepper", Returned(SubstitutionModification(outcome, state, id)))
        ELSE Delegates("SnifyStepper", QuittableHandle(outcome, state, id))

(***************************************************************************)
(* Commands.  Execute is Command.execute for the commands of the snify     *)
(* application; a "custom" command stands for a Command of any other       *)
(* application of the engine and returns the outcome sequence it carries.  *)
(***************************************************************************)
CommandKinds == {"annotate", "view_i", "skip", "quit", "exit_file", "rescan", "focus"}

\* SkipCommand.execute: assert isinstance(self.state.cursor.selection, tuple)
SkipAssertion(state) == ~IsOffset(state.cursor.selection)

\* a skip that goes back to the start of the selection
SkipExecuteStays(state) ==
    <<SetCursorOutcome(SnifyCursor(state.cursor.document_index, <<state.cursor.selection[1]>>))>>

SkipExecute(state) ==
    <<SetCursorOutcome(SnifyCursor(state.cursor.document_index, <<Last(state.cursor.selection) + 1>>))>>

\* an exit-file that selects a range of the next document itself
ExitFileExecuteSelects(state) ==
    <<SetCursorOutcome(SnifyCursor(state.cursor.document_index + 1, <<0, 1>>))>>

ExitFileExecute(state) ==
    <<SetCursorOutcome(SnifyCursor(state.cursor.document_index + 1, <<0>>))>>

StemFocusExecute(state) ==
    <<FocusOutcome,
      SetCursorOutcome(SnifyCursor(state.cursor.document_index, <<state.cursor.selection[1]>>))>>

Execute(cmd, state) ==
    CASE cmd.kind = "annotate"  -> <<>>
      [] cmd.kind = "view_i"    -> <<>>
      [] cmd.kind = "skip"      -> SkipExecute(state)
      [] cmd.kind = "quit"      -> <<QuitOutcome>>
      [] cmd.kind = "exit_file" -> ExitFileExecute(state)
      [] cmd.kind = "rescan"    -> <<RescanOutcome>>
      [] cmd.kind = "focus"     -> StemFocusExecute(state)
      [] cmd.kind = "custom"    -> cmd.outcomes

\* the outcomes a custom command may carry
CustomOutcomes(state) ==
    {QuitOutcome, RescanOutcome, SubstitutionOutcome(<<"x">>, 0, 1)}
    \cup {SetCursorOutcome(SnifyCursor(d, <<0>>)) : d \in {0, 1}}

SeqsUpTo(S, n) == UNION {[1..k -> S] : k \in 1..n}

Commands(state) ==
    {[kind |-> k] : k \in CommandKinds}
    \cup {[kind |-> "custom", outcomes |-> seq] : seq \in SeqsUpTo(CustomOutcomes(state), MaxOutcomes)}

(***************************************************************************)
(* CommandCollection: an ordered list of Commands and the resolution of    *)
(* one line of raw input to the first Command whose matcher accepts it.    *)
(* A line is a sequence of one-character strings.                          *)
(***************************************************************************)
Digits == {"0", "2"}

DigitValue(c) == CASE c = "0" -> 0 [] c = "2" -> 2

\* [0-9]+
IsNumber(s) == s # <<>> /\ \A i \in DOMAIN s : s[i] \in Digits

\* int(s) for a string of digits
RECURSIVE ParseInt(_)
ParseInt(s) == IF s = <<>> THEN 0 ELSE 10 * ParseInt(Front(s)) + DigitValue(Last(s))

\* the presentation pattern of a Command that has no pattern_regex of its own
PatternPresentation(cmd) ==
    CASE cmd.kind = "skip"      -> <<"s">>
      [] cmd.kind = "quit"      -> <<"q">>
      [] cmd.kind = "exit_file" -> <<"X">>
      [] cmd.kind = "rescan"    -> <<"R">>
      [] cmd.kind = "focus"     -> <<"f">>
      [] cmd.kind = "custom"    -> <<"c">>

\* the matcher of a Command: pattern_regex '^[0-9]+$' and '^v[0-9]+$' for the
\* option-indexed Commands, the presentation pattern otherwise
Accepts(cmd, line) ==
    CASE cmd.kind = "annotate" -> IsNumber(line)
      [] cmd.kind = "view_i"   -> line # <<>> /\ line[1] = "v" /\ IsNumber(Tail(line))
      [] OTHER                 -> line = PatternPresentation(cmd)

\* the lines the user may enter
Inputs ==
    { <<"0">>, <<"v", "0">>, <<"v", "2">>, <<"s">>, <<"q">>, <<"X">>, <<"R">>, <<"f">>,
      <<"c">>, <<"z">> }

\* a resolution that lets the last matching Command win
ResolveLast(coll, line) ==
    LET hits == {i \in DOMAIN coll : Accepts(coll[i], line)}
    IN  IF hits = {} THEN 0 ELSE CHOOSE i \in hits : \A j \in hits : i >= j

\* a resolution that falls back to the last Command for an unmatched line
ResolveFallback(coll, line) ==
    LET hits == {i \in DOMAIN coll : Accepts(coll[i], line)}
    IN  IF hits = {} THEN Len(coll) ELSE CHOOSE i \in hits : \A j \in hits : i <= j

\* the index of the first Command of the collection whose matcher accepts the
\* line, 0 when there is none
Resolve(coll, line) ==
    LET hits == {i \in DOMAIN coll : Accepts(coll[i], line)}
    IN  IF hits = {} THEN 0 ELSE CHOOSE i \in hits : \A j \in hits : i <= j

\* an index check that accepts one index too many
ViewIndexInvalidOffByOne(i, options) == i > Len(options)

\* View_i_Command.execute: i >= len(self.options)
ViewIndexInvalid(i, options) == i >= Len(options)

\* the error Command.execute(call) reports through the interface, or "none"
ExecuteError(cmd, call, options) ==
    IF cmd.kind = "view_i" /\ ViewIndexInvalid(ParseInt(Tail(call)), options)
    THEN "Invalid number"
    ELSE "none"

\* the collection of the snify application
SnifyCollection == << [kind |-> "annotate"], [kind |-> "skip"], [kind |-> "quit"] >>

\* the snify collection with the hidden Commands of snify_commands.py
ExtendedCollection ==
    << [kind |-> "annotate"], [kind |-> "view_i"], [kind |-> "exit_file"],
       [kind |-> "rescan"], [kind |-> "focus"], [kind |-> "skip"], [kind |-> "quit"] >>

\* the collections get_current_command_collection() may return: those of the
\* snify application, and collections of another application of the engine
\* in which two Commands share a matcher
Collections(state) ==
    {SnifyCollection, ExtendedCollection}
    \cup {<<cmd, [kind |-> "custom", outcomes |-> <<QuitOutcome>>], [kind |-> "quit"]>> :
             cmd \in {c \in Commands(state) : c.kind = "custom"}}

(***************************************************************************)
(* The rendering collaborator (interface.py).  An interface is the record  *)
(* of its kind, the two fields of ConsoleInterface and the list of what it *)
(* has put on the terminal.                                                *)
(***************************************************************************)
Echo(text) == [event |-> "echo", text |-> text]

Pager(content) == [event |-> "pager", content |-> content]

Cleared == [event |-> "clear"]

Input == [event |-> "input"]

\* actual_interface = MinimalInterface()
MinimalInterface ==
    [kind |-> "minimal", in_big_infopage |-> FALSE, big_infopage_content |-> <<>>,
     output |-> <<>>]

\* ConsoleInterface(), after __post_init__
ConsoleInterface ==
    [kind |-> "console", in_big_infopage |-> FALSE, big_infopage_content |-> <<>>,
     output |-> <<>>]

\* write_text(text): print for MinimalInterface, _write_styled for ConsoleInterface
WriteText(iface, text) ==
    IF iface.kind = "console" /\ iface.in_big_infopage
    THEN [iface EXCEPT !.big_infopage_content = Append(@, text)]
    ELSE [iface EXCEPT !.output = Append(@, Echo(text))]

\* clear()
Clear(iface) ==
    IF iface.kind = "minimal" THEN WriteText(iface, "=====")
    ELSE [iface EXCEPT !.output = Append(@, Cleared)]

\* await_confirmation()
AwaitConfirmation(iface) ==
    [WriteText(iface, "Press Enter to continue...") EXCEPT !.output = Append(@, Input)]

\* the exception the code of big_infopage() before its yield raises, or "none"
EnterError(iface) ==
    IF iface.kind = "console" /\ iface.in_big_infopage THEN "RuntimeError" ELSE "none"

\* big_infopage(): the code before the yield
Enter(iface) ==
    IF iface.kind = "minimal" THEN Clear(iface)
    ELSE [iface EXCEPT !.in_big_infopage = TRUE, !.big_infopage_content = <<>>]

\* big_infopage(): the code after the yield
AfterYield(iface) ==
    IF iface.kind = "minimal" THEN Clear(AwaitConfirmation(iface))
    ELSE [iface EXCEPT !.in_big_infopage = FALSE,
                       !.output = Append(@, Pager(iface.big_infopage_content))]

\* the with block is left because its body completed: the generator is resumed
ExitCompleted(iface) == AfterYield(iface)

\* the with block is left by an exception of its body: the exception is
\* thrown into the generator at the yield, which no try statement encloses,
\* so the generator ends there
ExitRaised(iface) == iface

\* the texts written to the interface
Texts == {"a", "b"}

(***************************************************************************)
(* The session: snify() creates the state with cursor (0, 0) and starts    *)
(* run().                                                                  *)
(***************************************************************************)
InitialDocuments ==
    { << Document(<<"b", " ", "b">>, "en"), Document(<<"x", " ", "b">>, "en") >>,
      << Document(<<"b">>, "en"), Document(<<"b">>, "xx") >> }

ExternalTexts == { <<"x", " ", "b">>, <<"b", " ", "b">> }

Snapshot ==
    [cursor |-> cursor, documents |-> documents,
     history |-> modification_history, future |-> modification_future]

\* SnifyStepper(state) and what surrounds it, before run() is called
Constructed ==
    /\ current_annotation_choices = None
    /\ modification_history = <<>>
    /\ modification_future = <<>>
    /\ pc = "ensure"
    /\ outcomes = <<>>
    /\ idx = 0
    /\ new_modifications = <<>>
    /\ modification = None
    /\ stop_reason = "none"
    /\ error = "none"
    /\ run_return = "running"
    /\ command = None
    /\ calls = <<>>
    /\ next_id = 1
    /\ next_stamp = 1
    /\ before = None
    /\ last_ops = <<>>
    /\ iterations = 0
    /\ undo_redos = 0
    /\ external_edits = 0
    /\ collection = <<>>
    /\ dispatched = None
    /\ unmatched = 0
    /\ trie = EmptyTrie
    /\ inserted = <<>>
    /\ scanned = None
    /\ stex_catalogs = NotCached
    /\ catalog_builds = 0
    /\ returned_catalogs = {}
    /\ catalog_source = CatalogStream
    /\ steps = <<>>
    /\ collection_built = None
    /\ confirmations = 0
    /\ session = "pending"
    /\ page = "outside"
    /\ last_exit = None
    /\ acquire_error = "none"
    /\ acquisitions = 0
    /\ new_state = None
    /\ focuses = 0

\* documents_from_paths(files): one object per document, in a list
Allocated ==
    /\ heap = documents
    /\ state_documents = [i \in DOMAIN documents |-> i]

Init ==
    /\ cursor = SnifyCursor(0, <<0>>)
    /\ documents \in InitialDocuments
    /\ interface = MinimalInterface
    /\ Constructed
    /\ Allocated

\* the last two completed operations
Remember(op) == IF Len(last_ops) < 2 THEN Append(last_ops, op) ELSE <<last_ops[2], op>>

\* run(): a StopStepper is caught and run() returns
CatchStopStepper(reason) ==
    /\ stop_reason' = reason
    /\ pc' = "returned"
    /\ run_return' = "None"
    /\ error' = error

\* run(): any other exception leaves run()
Propagate(exception) ==
    /\ error' = exception
    /\ pc' = "crashed"
    /\ UNCHANGED <<stop_reason, run_return>>

(***************************************************************************)
(* The observer's record of the calls made during one operation.           *)
(***************************************************************************)
\* handle_command_outcome(outcome) was called; id is the identity of the
\* Modification it returned (0 when it returned none or raised)
HandleCall(outcome, id, state, result) ==
    [op |-> "handle", outcome |-> outcome, id |-> id,
     by |-> result.by, entered |-> result.entered,
     raised |-> IF result.tag = "raise" THEN result.exception ELSE "none",
     modification |-> IF result.tag = "return" THEN result.value ELSE None,
     cursor |-> state.cursor,
     document_index |-> state.cursor.document_index,
     content |-> IF GetCurrentDocumentError(state.cursor, state.documents) = "none"
                 THEN DocumentAt(state.documents, state.cursor.document_index).content
                 ELSE <<>>]

\* m.apply(state) was called
ApplyCall(m, state) ==
    [op |-> "apply", id |-> m.id, aborted |-> ApplyAborts(m, state),
     docs_before |-> state.documents,
     docs_after |-> ApplyModification(m, state).documents]

\* m.unapply(state) was called
UnapplyCall(m, state) ==
    [op |-> "unapply", id |-> m.id, aborted |-> UnapplyAborts(m, state),
     docs_before |-> state.documents,
     docs_after |-> UnapplyModification(m, state).documents]

ExternalCall == [op |-> "external"]

(***************************************************************************)
(* One iteration of run(): _single_iteration, step by step.                *)
(***************************************************************************)
Running == pc \notin {"returned", "crashed"}

CurrentState == State(cursor, documents)

\* a handler chain that swallows the stop signal raised further down
HandleCommandOutcomeSwallows(outcome, state, id) ==
    LET result == SnifyHandle(outcome, state, id)
    IN  IF result.tag = "raise" /\ result.exception = "StopStepper"
        THEN Consumes("SnifyStepper", Returned(None))
        ELSE result

\* self.handle_command_outcome(outcome): the most derived handler comes first
HandleCommandOutcome(outcome, state, id) == SnifyHandle(outcome, state, id)

\* a history that inserts the new batch at the front
PushHistoryFront(history, batch) == <<batch>> \o history

\* self.modification_history.append(batch)
PushHistory(history, batch) == Append(history, batch)

\* a future that is not cleared
ClearFutureKeeps(future) == future

\* self.modification_future.clear()
ClearFuture(future) == <<>>

\* a list of modifications on one of the two stacks, with its push number
Batch(mods, pushed) == [mods |-> mods, pushed |-> pushed]

\* the step is carried out after the steps done so far in this iteration
StepsAppend(done, step) == Append(done, step)

\* a collection that is constructed once and handed out again afterwards
CommandCollectionKept(previous, iteration, state, options) ==
    IF previous.kind = "None"
    THEN [kind |-> "CommandCollection", iteration |-> iteration,
          cursor |-> state.cursor, options |-> options]
    ELSE previous

\* the CommandCollection get_current_command_collection() constructs: its
\* Commands hold the state and the annotation choices as they are now
CommandCollection(previous, iteration, state, options) ==
    [kind |-> "CommandCollection", iteration |-> iteration,
     cursor |-> state.cursor, options |-> options]

\* one call of ensure_state_up_to_date at the start of an iteration
Ensure ==
    /\ pc = "ensure"
    /\ iterations' = iterations + 1
    /\ steps' = StepsAppend(<<>>, "ensure_state_up_to_date")
    /\ IF ~IsOffset(cursor.selection)
       THEN /\ pc' = "show"
            /\ confirmations' = 0
            /\ UNCHANGED <<cursor, current_annotation_choices, stop_reason, error,
                           run_return, cache_vars>>
       ELSE LET catalogs == GetStexCatalogs(stex_catalogs, catalog_source).value
                scan == ScanDocuments(catalogs, documents, cursor.document_index,
                                      cursor.selection[1], <<>>)
                looked == Lookups(stex_catalogs, catalog_source, Len(scan.visited))
                errors == Cardinality(WithoutCatalog(catalogs, documents, scan.visited))
            IN  /\ stex_catalogs' = looked.cache
                /\ catalog_builds' = catalog_builds + looked.built
                /\ returned_catalogs' = returned_catalogs \cup looked.returned
                /\ IF scan.kind = "Found"
                   THEN /\ cursor' = scan.cursor
                        /\ current_annotation_choices' = scan.options
                        /\ confirmations' = errors
                        /\ pc' = "show"
                        /\ UNCHANGED <<stop_reason, error, run_return>>
                   ELSE /\ confirmations' = errors + 1
                        /\ CatchStopStepper("done")
                        /\ UNCHANGED <<cursor, current_annotation_choices>>
    /\ UNCHANGED <<documents, modification_history, modification_future, outcomes, idx,
                   new_modifications, modification, command, calls, next_id, next_stamp,
                   before, last_ops, undo_redos, external_edits>>
    /\ UNCHANGED <<dispatch_vars, catalog_vars, collection_built, aux_vars>>

EnsureStateUpToDate ==
    /\ iterations < MaxIterations
    /\ Ensure

ShowCurrentState ==
    /\ pc = "show"
    /\ steps' = StepsAppend(steps, "show_current_state")
    /\ LET doc_error == GetCurrentDocumentError(cursor, documents)
       IN  IF doc_error # "none" THEN Propagate(doc_error)
           ELSE pc' = "commands" /\ UNCHANGED <<stop_reason, error, run_return>>
    /\ UNCHANGED <<cursor, documents, current_annotation_choices, modification_history,
                   modification_future, outcomes, idx, new_modifications, modification,
                   command, calls, next_id, next_stamp, before, last_ops, iterations,
                   undo_redos, external_edits>>
    /\ UNCHANGED <<dispatch_vars, catalog_vars, cache_vars, collection_built,
                   confirmations, aux_vars>>

GetCurrentCommandCollection ==
    /\ pc = "commands"
    /\ steps' = StepsAppend(steps, "get_current_command_collection")
    /\ LET doc_error == GetCurrentDocumentError(cursor, documents)
           looked == Lookups(stex_catalogs, catalog_source, 1)
       IN  IF doc_error # "none"
           THEN /\ Propagate(doc_error)
                /\ UNCHANGED <<cache_vars, collection, unmatched, collection_built>>
           ELSE /\ stex_catalogs' = looked.cache
                /\ catalog_builds' = catalog_builds + looked.built
                /\ returned_catalogs' = returned_catalogs \cup looked.returned
                /\ IF ~HasCatalog(looked.value, DocumentAt(documents, cursor.document_index))
                   THEN /\ Propagate("AssertionError")
                        /\ UNCHANGED <<collection, unmatched, collection_built>>
                   ELSE /\ pc' = "dispatch"
                        /\ collection' \in Collections(CurrentState)
                        /\ collection_built' =
                               CommandCollection(collection_built, iterations, CurrentState,
                                                 current_annotation_choices)
                        /\ unmatched' = 0
                        /\ UNCHANGED <<stop_reason, error, run_return>>
    /\ UNCHANGED <<cursor, documents, current_annotation_choices, modification_history,
                   modification_future, outcomes, idx, new_modifications, modification,
                   command, calls, next_id, next_stamp, before, last_ops, iterations,
                   undo_redos, external_edits, dispatched, catalog_vars>>
    /\ UNCHANGED <<confirmations, aux_vars>>

\* CommandCollection.apply(): one line of input is read; an unmatched line is
\* reported and apply() blocks for input again, a matched line is resolved to
\* one Command, which is executed
Dispatch ==
    /\ pc = "dispatch"
    /\ \E line \in Inputs :
        LET i == Resolve(collection, line)
        IN  IF i = 0
            THEN /\ unmatched < MaxUnmatched
                 /\ unmatched' = unmatched + 1
                 /\ UNCHANGED <<command, outcomes, dispatched, idx, new_modifications,
                                calls, before, pc, steps>>
            ELSE /\ command' = collection[i]
                 /\ outcomes' = Execute(collection[i], CurrentState)
                 /\ dispatched' = [line |-> line, index |-> i,
                                   error |-> ExecuteError(collection[i], line,
                                                          collection_built.options),
                                   iteration |-> iterations,
                                   built_in |-> collection_built.iteration]
                 /\ steps' = StepsAppend(steps, "dispatch")
                 /\ idx' = 0
                 /\ new_modifications' = <<>>
                 /\ calls' = <<>>
                 /\ before' = Snapshot
                 /\ pc' = "loop"
                 /\ UNCHANGED unmatched
    /\ UNCHANGED <<cursor, documents, current_annotation_choices, modification_history,
                   modification_future, modification, stop_reason, error, run_return,
                   next_id, next_stamp, last_ops, iterations, undo_redos, external_edits,
                   collection, catalog_vars>>
    /\ UNCHANGED <<cache_vars, collection_built, confirmations, aux_vars>>

\* line 67: modification = self.handle_command_outcome(outcome)
HandleOutcome ==
    /\ pc = "loop"
    /\ idx < Len(outcomes)
    /\ LET outcome == outcomes[idx + 1]
           result == HandleCommandOutcome(outcome, CurrentState, next_id)
       IN  /\ idx' = idx + 1
           /\ calls' = Append(calls, HandleCall(outcome,
                                   IF result.tag = "return" /\ result.value.kind # "None"
                                   THEN result.value.id ELSE 0,
                                   CurrentState, result))
           /\ IF result.tag = "return" /\ result.value.kind # "None"
              THEN /\ modification' = result.value
                   /\ next_id' = next_id + 1
                   /\ pc' = "apply"
                   /\ UNCHANGED <<stop_reason, error, run_return>>
              ELSE IF result.tag = "return"
              THEN UNCHANGED <<modification, next_id, pc, stop_reason, error, run_return>>
              ELSE /\ IF result.exception = "StopStepper"
                      THEN CatchStopStepper(result.arg)
                      ELSE Propagate(result.exception)
                   /\ UNCHANGED <<modification, next_id>>
    /\ UNCHANGED <<cursor, documents, current_annotation_choices, modification_history,
                   modification_future, outcomes, new_modifications, command, next_stamp,
                   before, last_ops, iterations, undo_redos, external_edits>>
    /\ UNCHANGED <<dispatch_vars, catalog_vars>>
    /\ steps' = StepsAppend(steps, "handle_command_outcome")
    /\ UNCHANGED <<cache_vars, collection_built, confirmations, aux_vars>>

\* lines 68-71: the modification is appended to the batch and applied
ApplyOutcome ==
    /\ pc = "apply"
    /\ new_modifications' = Append(new_modifications, modification)
    /\ LET state == ApplyModification(modification, CurrentState)
       IN  cursor' = state.cursor /\ documents' = state.documents
    /\ calls' = Append(calls, ApplyCall(modification, CurrentState))
    /\ modification' = None
    /\ pc' = "loop"
    /\ UNCHANGED <<current_annotation_choices, modification_history, modification_future,
                   outcomes, idx, stop_reason, error, run_return, command, next_id,
                   next_stamp, before, last_ops, iterations, undo_redos, external_edits>>
    /\ UNCHANGED <<dispatch_vars, catalog_vars>>
    /\ steps' = StepsAppend(steps, "apply")
    /\ UNCHANGED <<cache_vars, collection_built, confirmations, aux_vars>>

\* lines 73-75: a non-empty batch is pushed onto the history and the future is cleared
RecordBatch ==
    /\ pc = "loop"
    /\ idx = Len(outcomes)
    /\ IF new_modifications # <<>>
       THEN /\ modification_history' =
                   PushHistory(modification_history, Batch(new_modifications, next_stamp))
            /\ modification_future' = ClearFuture(modification_future)
            /\ next_stamp' = next_stamp + 1
       ELSE UNCHANGED <<modification_history, modification_future, next_stamp>>
    /\ last_ops' = Remember([op |-> "iteration", before |-> before,
                             mods |-> new_modifications, calls |-> calls])
    /\ pc' = "ensure"
    /\ UNCHANGED <<cursor, documents, current_annotation_choices, outcomes, idx,
                   new_modifications, modification, stop_reason, error, run_return,
                   command, calls, next_id, before, iterations, undo_redos, external_edits>>
    /\ UNCHANGED <<dispatch_vars, catalog_vars>>
    /\ steps' = StepsAppend(steps, "record")
    /\ UNCHANGED <<cache_vars, collection_built, confirmations, aux_vars>>

(***************************************************************************)
(* Undo and redo: the entry points built on the two stacks.  They run      *)
(* between two iterations of run().                                        *)
(***************************************************************************)
RECURSIVE ApplyAll(_, _)
ApplyAll(mods, state) ==
    IF mods = <<>> THEN state
    ELSE ApplyAll(Tail(mods), ApplyModification(Head(mods), state))

RECURSIVE UnapplyAll(_, _)
UnapplyAll(mods, state) ==
    IF mods = <<>> THEN state
    ELSE UnapplyAll(Tail(mods), UnapplyModification(Head(mods), state))

RECURSIVE ApplyCalls(_, _)
ApplyCalls(mods, state) ==
    IF mods = <<>> THEN <<>>
    ELSE <<ApplyCall(Head(mods), state)>>
         \o ApplyCalls(Tail(mods), ApplyModification(Head(mods), state))

RECURSIVE UnapplyCalls(_, _)
UnapplyCalls(mods, state) ==
    IF mods = <<>> THEN <<>>
    ELSE <<UnapplyCall(Head(mods), state)>>
         \o UnapplyCalls(Tail(mods), UnapplyModification(Head(mods), state))

\* the order in which undo calls unapply on the members of a batch
UndoOrder(mods) == Reverse(mods)

\* the order in which redo calls apply on the members of a batch
RedoOrder(mods) == mods

Undo ==
    /\ pc = "ensure"
    /\ undo_redos < MaxUndoRedos
    /\ modification_history # <<>>
    /\ LET batch == Last(modification_history)
           state == UnapplyAll(UndoOrder(batch.mods), CurrentState)
       IN  /\ cursor' = state.cursor
           /\ documents' = state.documents
           /\ modification_history' = Front(modification_history)
           /\ modification_future' = Append(modification_future, Batch(batch.mods, next_stamp))
           /\ calls' = UnapplyCalls(UndoOrder(batch.mods), CurrentState)
           /\ last_ops' = Remember([op |-> "undo", before |-> Snapshot, mods |-> batch.mods,
                                    calls |-> UnapplyCalls(UndoOrder(batch.mods), CurrentState)])
    /\ before' = Snapshot
    /\ next_stamp' = next_stamp + 1
    /\ undo_redos' = undo_redos + 1
    /\ UNCHANGED <<current_annotation_choices, pc, outcomes, idx, new_modifications,
                   modification, stop_reason, error, run_return, command, next_id,
                   iterations, external_edits>>
    /\ UNCHANGED <<dispatch_vars, catalog_vars>>
    /\ UNCHANGED <<cache_vars, steps, collection_built, confirmations, aux_vars>>

Redo ==
    /\ pc = "ensure"
    /\ undo_redos < MaxUndoRedos
    /\ modification_future # <<>>
    /\ LET batch == Last(modification_future)
           state == ApplyAll(RedoOrder(batch.mods), CurrentState)
       IN  /\ cursor' = state.cursor
           /\ documents' = state.documents
           /\ modification_future' = Front(modification_future)
           /\ modification_history' = Append(modification_history, Batch(batch.mods, next_stamp))
           /\ calls' = ApplyCalls(RedoOrder(batch.mods), CurrentState)
           /\ last_ops' = Remember([op |-> "redo", before |-> Snapshot, mods |-> batch.mods,
                                    calls |-> ApplyCalls(RedoOrder(batch.mods), CurrentState)])
    /\ before' = Snapshot
    /\ next_stamp' = next_stamp + 1
    /\ undo_redos' = undo_redos + 1
    /\ UNCHANGED <<current_annotation_choices, pc, outcomes, idx, new_modifications,
                   modification, stop_reason, error, run_return, command, next_id,
                   iterations, external_edits>>
    /\ UNCHANGED <<dispatch_vars, catalog_vars>>
    /\ UNCHANGED <<cache_vars, steps, collection_built, confirmations, aux_vars>>

(***************************************************************************)
(* The external process: it may replace the content of a document at any   *)
(* moment while the stepper runs.                                          *)
(***************************************************************************)
ExternalEdit ==
    /\ Running
    /\ external_edits < MaxExternalEdits
    /\ \E d \in 1..Len(documents), text \in ExternalTexts :
        /\ text # documents[d].content
        /\ documents' = [documents EXCEPT ![d].content = text]
    /\ external_edits' = external_edits + 1
    /\ calls' = Append(calls, ExternalCall)
    /\ last_ops' = Remember(ExternalCall)
    /\ UNCHANGED <<cursor, current_annotation_choices, modification_history,
                   modification_future, pc, outcomes, idx, new_modifications, modification,
                   stop_reason, error, run_return, command, next_id, next_stamp, before,
                   iterations, undo_redos>>
    /\ UNCHANGED <<dispatch_vars, catalog_vars>>
    /\ UNCHANGED <<cache_vars, steps, collection_built, confirmations, aux_vars>>

Next ==
    \/ EnsureStateUpToDate
    \/ ShowCurrentState
    \/ GetCurrentCommandCollection
    \/ Dispatch
    \/ HandleOutcome
    \/ ApplyOutcome
    \/ RecordBatch
    \/ Undo
    \/ Redo
    \/ ExternalEdit

Spec == Init /\ [][Next]_vars

(***************************************************************************)
(* The catalog on its own: a Trie is built by inserts, directly and        *)
(* through Catalog.add_symbverb, and texts are scanned against it.         *)
(***************************************************************************)
\* the tokens of the keys inserted directly
TrieTokens == { <<"b">> }

TrieKeys == {<<>>} \cup SeqsUpTo(TrieTokens, MaxKeyLen)

Symbols == {"sym1", "sym2"}

\* the vocabulary entries inserted directly
Entries == { <<"b">>, <<"b", "s">> }

\* the vocabulary entries added through the catalog
Verbalizations == { <<"b">>, <<"b", "s">>, <<"b", " ", "b">>, <<"x">> }

IgnoreSymbols(symbols) == [stems |-> {}, words |-> {}, symbols |-> symbols]

\* the scans tried: a text and the ignore sets
ScanInputs ==
    { <<text, ignore>> :
        text \in { <<"x", " ", "b", " ", "b">> },
        ignore \in { NoIgnore, IgnoreSymbols({"sym1"}), IgnoreSymbols({"sym1", "sym2"}),
                     [stems |-> {<<"b">>}, words |-> {}, symbols |-> {}],
                     [stems |-> {}, words |-> {<<"b", " ", "b">>}, symbols |-> {}] } }
    \cup { << <<>>, NoIgnore >>,
           << <<"b", "s", " ", "x">>, NoIgnore >>,
           << <<"b", "s", " ", "x">>, IgnoreSymbols({"sym1"}) >> }

InsertRecord(key, symb, verb) == [key |-> key, symb |-> symb, verb |-> verb]

CatalogInit ==
    /\ Init
    /\ documents = << Document(<<"b">>, "en"), Document(<<"b">>, "xx") >>

\* Trie.insert(key, symb, verb)
Insert ==
    /\ Len(inserted) < MaxInserts
    /\ \E key \in TrieKeys, symb \in Symbols, verb \in Entries :
        /\ trie' = TrieInsert(trie, key, symb, verb)
        /\ inserted' = Append(inserted, InsertRecord(key, symb, verb))
    /\ scanned' = None
    /\ UNCHANGED <<cursor, documents, current_annotation_choices, modification_history,
                   modification_future, pc, outcomes, idx, new_modifications, modification,
                   stop_reason, error, run_return, command, calls, next_id, next_stamp,
                   before, last_ops, iterations, undo_redos, external_edits, dispatch_vars>>
    /\ UNCHANGED <<cache_vars, steps, collection_built, confirmations, aux_vars>>

\* Catalog.add_symbverb(symb, verb) of a catalog for "en"
AddSymbverbToCatalog ==
    /\ Len(inserted) < MaxInserts
    /\ \E symb \in Symbols, verb \in Verbalizations :
        /\ trie' = AddSymbverb(trie, "en", symb, verb)
        /\ inserted' = Append(inserted,
                              InsertRecord(StemmedWordSequence(verb, "en"), symb, verb))
    /\ scanned' = None
    /\ UNCHANGED <<cursor, documents, current_annotation_choices, modification_history,
                   modification_future, pc, outcomes, idx, new_modifications, modification,
                   stop_reason, error, run_return, command, calls, next_id, next_stamp,
                   before, last_ops, iterations, undo_redos, external_edits, dispatch_vars>>
    /\ UNCHANGED <<cache_vars, steps, collection_built, confirmations, aux_vars>>

\* find_first_match on the catalog as built so far
Scan ==
    /\ scanned.kind = "None"
    /\ \E input \in ScanInputs :
        scanned' = [kind |-> "Scan", text |-> input[1], ignore |-> input[2],
                    result |-> FindFirstMatch(trie, "en", input[1], input[2])]
    /\ UNCHANGED <<cursor, documents, current_annotation_choices, modification_history,
                   modification_future, pc, outcomes, idx, new_modifications, modification,
                   stop_reason, error, run_return, command, calls, next_id, next_stamp,
                   before, last_ops, iterations, undo_redos, external_edits, dispatch_vars,
                   trie, inserted>>
    /\ UNCHANGED <<cache_vars, steps, collection_built, confirmations, aux_vars>>

CatalogNext ==
    \/ Insert
    \/ AddSymbverbToCatalog
    \/ Scan

CatalogSpec == CatalogInit /\ [][CatalogNext]_vars

(***************************************************************************)
(* The session as snify() runs it: the state is a new one or one loaded    *)
(* from the session storage, the files the catalogs are built from may be  *)
(* modified while the stepper runs, and after run() the session is stored  *)
(* or deleted.                                                             *)
(***************************************************************************)
SessionDocuments ==
    { <<>>,
      << Document(<<"x">>, "en") >>,
      << Document(<<"b", " ", "b">>, "en"), Document(<<"x", " ", "b">>, "en") >>,
      << Document(<<"b">>, "en"), Document(<<"b">>, "xx") >>,
      << Document(<<"b">>, "xx"), Document(<<"x">>, "en"), Document(<<"b">>, "yy") >>,
      << Document(<<"x", "|", "b", "|", "b", " ", "b">>, "en") >>,
      << Document(<<"b">>, "xx"), Document(<<"b", " ", "x", "|", "b">>, "en") >> }

\* the states a session starts from: cursor (0, 0), or the cursor of a loaded
\* session
SessionStates ==
    { State(SnifyCursor(d, <<0>>), docs) : d \in 0..2, docs \in SessionDocuments }

CatalogStreams == {CatalogStream, CatalogStreamModified}

SessionInit ==
    /\ \E state \in SessionStates : cursor = state.cursor /\ documents = state.documents
    /\ interface = MinimalInterface
    /\ Constructed
    /\ Allocated

\* the files the catalogs are built from are modified
CatalogSourceEdit ==
    /\ \E source \in CatalogStreams :
        /\ source # catalog_source
        /\ catalog_source' = source
    /\ UNCHANGED <<cursor, documents, current_annotation_choices, modification_history,
                   modification_future, pc, outcomes, idx, new_modifications, modification,
                   stop_reason, error, run_return, command, calls, next_id, next_stamp,
                   before, last_ops, iterations, undo_redos, external_edits, dispatch_vars,
                   catalog_vars, cache_vars, steps, collection_built, confirmations,
                   session, interface_vars, focus_vars>>

\* what snify() does with the session for the value run() returned
SessionOutcome(returned) == IF returned = "quit" THEN "stored" ELSE "deleted"

\* snify(): stop_reason = stepper.run(), then the session is stored or deleted
SnifyFinish ==
    /\ pc = "returned"
    /\ session = "pending"
    /\ session' = SessionOutcome(run_return)
    /\ UNCHANGED <<cursor, documents, current_annotation_choices, modification_history,
                   modification_future, pc, outcomes, idx, new_modifications, modification,
                   stop_reason, error, run_return, command, calls, next_id, next_stamp,
                   before, last_ops, iterations, undo_redos, external_edits, dispatch_vars,
                   catalog_vars, cache_vars, steps, collection_built, confirmations,
                   catalog_source, interface_vars, focus_vars>>

SessionNext ==
    \/ EnsureStateUpToDate
    \/ ShowCurrentState
    \/ GetCurrentCommandCollection
    \/ Dispatch
    \/ HandleOutcome
    \/ ApplyOutcome
    \/ RecordBatch
    \/ CatalogSourceEdit
    \/ SnifyFinish

SessionSpec == SessionInit /\ [][SessionNext]_vars

(***************************************************************************)
(* The interface on its own: texts are written, the big info page is       *)
(* acquired, and its body completes or raises.                             *)
(***************************************************************************)
InterfaceInit ==
    /\ cursor = SnifyCursor(0, <<0>>)
    /\ documents = << Document(<<"b">>, "en"), Document(<<"b">>, "xx") >>
    /\ interface \in {MinimalInterface, ConsoleInterface}
    /\ Constructed
    /\ Allocated

Exit(how, iface) == [kind |-> "Exit", how |-> how, before |-> iface]

\* interface.write_text(text)
Write ==
    /\ Len(interface.output) + Len(interface.big_infopage_content) < MaxOutput
    /\ \E text \in Texts : interface' = WriteText(interface, text)
    /\ UNCHANGED <<session_vars, focus_vars, page, last_exit, acquire_error, acquisitions>>

\* with interface.big_infopage(): the block is entered
Acquire ==
    /\ page = "outside"
    /\ acquisitions < MaxAcquisitions
    /\ acquisitions' = acquisitions + 1
    /\ acquire_error' = EnterError(interface)
    /\ IF EnterError(interface) = "none"
       THEN interface' = Enter(interface) /\ page' = "body"
       ELSE UNCHANGED <<interface, page>>
    /\ UNCHANGED <<session_vars, focus_vars, last_exit>>

\* the body of the with block completes
BodyCompletes ==
    /\ page = "body"
    /\ interface' = ExitCompleted(interface)
    /\ last_exit' = Exit("completed", interface)
    /\ page' = "outside"
    /\ UNCHANGED <<session_vars, focus_vars, acquire_error, acquisitions>>

\* the body of the with block raises (e.g. Path(symbol.path).read_text() in
\* View_i_Command.execute)
BodyRaises ==
    /\ page = "body"
    /\ interface' = ExitRaised(interface)
    /\ last_exit' = Exit("raised", interface)
    /\ page' = "outside"
    /\ UNCHANGED <<session_vars, focus_vars, acquire_error, acquisitions>>

InterfaceNext ==
    \/ Write
    \/ Acquire
    \/ BodyCompletes
    \/ BodyRaises

InterfaceSpec == InterfaceInit /\ [][InterfaceNext]_vars

(***************************************************************************)
(* The session of a user who only skips: SkipSpec allows the skip and      *)
(* exit-file Commands and the Commands without an outcome, SkipOnlySpec    *)
(* the skip and exit-file Commands alone, and the user keeps answering.    *)
(***************************************************************************)
SkipDocuments ==
    { <<>>,
      << Document(<<"b", " ", "b", " ", "b">>, "en"), Document(<<"x", " ", "b">>, "en") >>,
      << Document(<<"b", "s", " ", "x", " ", "b">>, "en") >>,
      << Document(<<"b">>, "xx"), Document(<<"b">>, "en"), Document(<<"x">>, "en") >>,
      << Document(<<"x", " ", "b">>, "en"), Document(<<"b", " ", "x", " ", "b">>, "en") >> }

SkipInit ==
    /\ cursor = SnifyCursor(0, <<0>>)
    /\ documents \in SkipDocuments
    /\ interface = MinimalInterface
    /\ Constructed
    /\ Allocated

\* the Commands of a user who skips, exits files and looks at things
SkippingKinds == {"skip", "exit_file", "annotate", "view_i"}

SkipOnlyKinds == {"skip", "exit_file"}

SkipEnsure ==
    /\ iterations < MaxSkips
    /\ Ensure

SkipCollection ==
    /\ GetCurrentCommandCollection
    /\ pc' = "dispatch" => collection' = ExtendedCollection

SkipDispatch ==
    /\ Dispatch
    /\ pc' = "loop"
    /\ command'.kind \in SkippingKinds

SkipOnlyDispatch ==
    /\ Dispatch
    /\ pc' = "loop"
    /\ command'.kind \in SkipOnlyKinds

SkipNext ==
    \/ SkipEnsure
    \/ ShowCurrentState
    \/ SkipCollection
    \/ SkipDispatch
    \/ HandleOutcome
    \/ ApplyOutcome
    \/ RecordBatch

SkipSpec == SkipInit /\ [][SkipNext]_vars

SkipOnlyNext ==
    \/ SkipEnsure
    \/ ShowCurrentState
    \/ SkipCollection
    \/ SkipOnlyDispatch
    \/ HandleOutcome
    \/ ApplyOutcome
    \/ RecordBatch

\* SkipEnsure is enabled exactly in these states, and every step of it
\* changes iterations
SkipEnsureEnabled == pc = "ensure" /\ iterations < MaxSkips

\* weak fairness of every step of the session: WF_vars(SkipEnsure) is written
\* as the formula it abbreviates, with ENABLED <<SkipEnsure>>_vars replaced by
\* the state predicate it is equivalent to
SkipOnlyFairness ==
    /\ ([]<>(~SkipEnsureEnabled) \/ []<><<SkipEnsure>>_vars)
    /\ WF_vars(ShowCurrentState)
    /\ WF_vars(SkipCollection)
    /\ WF_vars(SkipOnlyDispatch)
    /\ WF_vars(HandleOutcome)
    /\ WF_vars(ApplyOutcome)
    /\ WF_vars(RecordBatch)

SkipOnlySpec == SkipInit /\ [][SkipOnlyNext]_vars /\ SkipOnlyFairness

(***************************************************************************)
(* The focus Commands on their own.  Objects have identities: a State      *)
(* holds the list of the identities of its Document objects, and the       *)
(* content of an object is changed in place.                               *)
(***************************************************************************)
\* deepcopy(state): the heap after every document of the list was copied to
\* a new object
DeepCopyHeap(h, docs) == h \o [i \in DOMAIN docs |-> h[docs[i]]]

\* deepcopy(state).documents: the list of the new objects
DeepCopyDocuments(h, docs) == [i \in DOMAIN docs |-> Len(h) + i]

\* state.get_current_document(), as an object
CurrentDocumentObject(cur, docs) == docs[cur.document_index + 1]

\* StemFocusCommand.execute: new_state = deepcopy(state), then
\* new_state.documents = [state.get_current_document()]
StemFocusNewState(h, cur, docs) ==
    [kind |-> "SnifyState", command |-> "f", cursor |-> cur,
     documents |-> <<CurrentDocumentObject(cur, docs)>>,
     contents |-> [i \in DOMAIN docs |-> h[docs[i]].content]]

\* StemFocusCommandPlus.execute: new_state = deepcopy(state)
StemFocusPlusNewState(h, cur, docs) ==
    [kind |-> "SnifyState", command |-> "f!", cursor |-> cur,
     documents |-> DeepCopyDocuments(h, docs),
     contents |-> [i \in DOMAIN docs |-> h[docs[i]].content]]

\* the States a focus Command is executed in: the cursor selects a range of
\* one of the documents
FocusStates ==
    { State(SnifyCursor(d, <<0, 1>>), docs) :
        d \in 0..1,
        docs \in { << Document(<<"b", " ", "b">>, "en"), Document(<<"x", " ", "b">>, "en") >>,
                   << Document(<<"b">>, "en"), Document(<<"b">>, "xx") >> } }

FocusInit ==
    /\ \E state \in FocusStates : cursor = state.cursor /\ documents = state.documents
    /\ interface = MinimalInterface
    /\ Constructed
    /\ Allocated

\* StemFocusCommand.execute
StemFocus ==
    /\ focuses < MaxFocuses
    /\ focuses' = focuses + 1
    /\ heap' = DeepCopyHeap(heap, state_documents)
    /\ new_state' = StemFocusNewState(heap, cursor, state_documents)
    /\ UNCHANGED <<session_vars, interface_vars, state_documents>>

\* StemFocusCommandPlus.execute
StemFocusPlus ==
    /\ focuses < MaxFocuses
    /\ focuses' = focuses + 1
    /\ heap' = DeepCopyHeap(heap, state_documents)
    /\ new_state' = StemFocusPlusNewState(heap, cursor, state_documents)
    /\ UNCHANGED <<session_vars, interface_vars, state_documents>>

\* the sub-session changes the content of a document of its State
SubSessionWrite ==
    /\ new_state.kind = "SnifyState"
    /\ \E i \in DOMAIN new_state.documents, text \in ExternalTexts :
        /\ text # heap[new_state.documents[i]].content
        /\ heap' = [heap EXCEPT ![new_state.documents[i]].content = text]
    /\ UNCHANGED <<session_vars, interface_vars, state_documents, new_state, focuses>>

FocusNext ==
    \/ StemFocus
    \/ StemFocusPlus
    \/ SubSessionWrite

FocusSpec == FocusInit /\ [][FocusNext]_vars

(***************************************************************************)
(* Properties.                                                             *)
(***************************************************************************)
StepperCalls(cs) == SelectSeq(cs, LAMBDA c : c.op # "external")

HandleCalls(cs) == SelectSeq(cs, LAMBDA c : c.op = "handle")

ApplyCallsIn(cs) == SelectSeq(cs, LAMBDA c : c.op = "apply")

NoExternal(cs) == \A i \in DOMAIN cs : cs[i].op # "external"

Ids(xs) == [i \in DOMAIN xs |-> xs[i].id]

ModsOf(stack) == [i \in DOMAIN stack |-> stack[i].mods]

CursorMods(mods) == SelectSeq(mods, LAMBDA m : m.kind = "cursor")

\* the for loop over the outcomes is running
InLoop == pc \in {"loop", "apply"}

\* an iteration has just been completed (nothing happened since)
IterationDone == pc = "ensure" /\ last_ops # <<>> /\ Last(last_ops).op = "iteration"

UndoDone == pc = "ensure" /\ last_ops # <<>> /\ Last(last_ops).op = "undo"

RedoDone == pc = "ensure" /\ last_ops # <<>> /\ Last(last_ops).op = "redo"

StateBefore(snapshot) == State(snapshot.cursor, snapshot.documents)

\* C1: in an iteration the outcomes are handled in emitted order, every
\* Modification a handler returns is applied exactly once and before the
\* next outcome is handled, and on completion the batch pushed onto the
\* history is the list of these Modifications in that order; with no
\* Modification the history is unchanged.
C1_BatchIsHandledAppliedPushed ==
    /\ InLoop =>
        LET sc == StepperCalls(calls)
            hs == HandleCalls(calls)
        IN  /\ Len(hs) = idx
            /\ \A i \in 1..idx : hs[i].outcome = outcomes[i]
            /\ \A i \in DOMAIN sc :
                /\ (sc[i].op = "handle" /\ sc[i].id # 0) =>
                       IF i < Len(sc)
                       THEN sc[i + 1].op = "apply" /\ sc[i + 1].id = sc[i].id
                       ELSE pc = "apply" /\ modification.id = sc[i].id
                /\ sc[i].op = "apply" =>
                       i > 1 /\ sc[i - 1].op = "handle" /\ sc[i - 1].id = sc[i].id
            /\ Ids(new_modifications) = Ids(ApplyCallsIn(sc))
            /\ NoExternal(calls) =>
                   CurrentState = ApplyAll(new_modifications, StateBefore(before))
            /\ modification_history = before.history
    /\ IterationDone =>
        LET o == Last(last_ops)
        IN  /\ o.mods = new_modifications
            /\ Ids(o.mods) = Ids(ApplyCallsIn(calls))
            /\ Len(HandleCalls(calls)) = Len(outcomes)
            /\ IF o.mods = <<>>
               THEN modification_history = o.before.history
               ELSE /\ Front(modification_history) = o.before.history
                    /\ Last(modification_history).mods = o.mods

C1_Witness ==
    /\ IterationDone
    /\ Len(Last(last_ops).mods) = 2
    /\ Len(modification_history) = 2

\* C2: completing an iteration whose batch is non-empty leaves the future
\* stack empty, also after an undo has filled it; an iteration whose batch
\* is empty leaves the future stack as it was.
C2_RedoInvalidation ==
    /\ InLoop => modification_future = before.future
    /\ IterationDone =>
        LET o == Last(last_ops)
        IN  IF o.mods # <<>>
            THEN modification_future = <<>>
            ELSE modification_future = o.before.future

C2_Witness ==
    /\ IterationDone
    /\ Last(last_ops).before.future # <<>>
    /\ Last(last_ops).mods # <<>>
    /\ modification_future = <<>>

\* C3: undo removes the most recently pushed history batch and no other,
\* calls unapply on its Modifications in the reverse of the order in which
\* they were applied (so that the cursor ends at the old cursor of the
\* batch's first cursor Modification), and pushes the batch onto the future.
C3_UndoPopsLatestBatch ==
    UndoDone =>
        LET o == Last(last_ops)
            h == o.before.history
            b == Last(h)
        IN  /\ modification_history = Front(h)
            /\ \A i \in DOMAIN h : h[i].pushed <= b.pushed
            /\ o.mods = b.mods
            /\ Front(modification_future) = o.before.future
            /\ Last(modification_future).mods = b.mods
            /\ Len(calls) = Len(b.mods)
            /\ \A i \in DOMAIN calls :
                   calls[i].op = "unapply" /\ calls[i].id = b.mods[Len(b.mods) + 1 - i].id
            /\ CursorMods(b.mods) # <<>> => cursor = CursorMods(b.mods)[1].old_cursor

C3_Witness ==
    /\ UndoDone
    /\ Len(Last(last_ops).mods) = 2
    /\ Len(Last(last_ops).before.history) = 2

\* the part of C4 about a single redo: it removes the most recently pushed
\* future batch, calls apply on its Modifications in their original order
\* (so that the cursor ends at the new cursor of the batch's last cursor
\* Modification) and pushes the batch back onto the history
RedoPopsLatestBatch ==
    RedoDone =>
        LET o == Last(last_ops)
            f == o.before.future
            b == Last(f)
        IN  /\ modification_future = Front(f)
            /\ \A i \in DOMAIN f : f[i].pushed <= b.pushed
            /\ o.mods = b.mods
            /\ Front(modification_history) = o.before.history
            /\ Last(modification_history).mods = b.mods
            /\ Len(calls) = Len(b.mods)
            /\ \A i \in DOMAIN calls : calls[i].op = "apply" /\ calls[i].id = b.mods[i].id
            /\ CursorMods(b.mods) # <<>> => cursor = Last(CursorMods(b.mods)).new_cursor

\* an undo was followed immediately by a redo
UndoThenRedo ==
    /\ pc = "ensure"
    /\ Len(last_ops) = 2
    /\ last_ops[1].op = "undo"
    /\ last_ops[2].op = "redo"

\* C4 as stated, in the runs without an external edit: redo pops the latest
\* future batch, applies it in original order and pushes it back; after undo
\* followed immediately by redo, State, History and Future are equal to what
\* they were before the undo.
C4_UndoRedoRestoresEverything ==
    /\ RedoPopsLatestBatch
    /\ (UndoThenRedo /\ external_edits = 0) =>
        LET s == last_ops[1].before
        IN  /\ cursor = s.cursor
            /\ documents = s.documents
            /\ ModsOf(modification_history) = ModsOf(s.history)
            /\ ModsOf(modification_future) = ModsOf(s.future)

\* C4 as amended: redo pops the latest future batch, applies it in original
\* order and pushes it back; after undo followed immediately by redo, History
\* and Future are what they were before the undo; the cursor is what it was
\* if the batch has no cursor Modification or the cursor before the undo was
\* still the new cursor of the batch's last cursor Modification; the
\* documents are what they were if no unapply of the undo was aborted.
C4_UndoRedoRestores ==
    /\ RedoPopsLatestBatch
    /\ UndoThenRedo =>
        LET u == last_ops[1]
            s == u.before
            cm == CursorMods(u.mods)
        IN  /\ ModsOf(modification_history) = ModsOf(s.history)
            /\ ModsOf(modification_future) = ModsOf(s.future)
            /\ (cm = <<>> \/ s.cursor = Last(cm).new_cursor) => cursor = s.cursor
            /\ (\A i \in DOMAIN u.calls : ~u.calls[i].aborted) => documents = s.documents

C4_Witness ==
    /\ UndoThenRedo
    /\ Len(last_ops[1].mods) = 2
    /\ CursorMods(last_ops[1].mods) # <<>>
    /\ CurrentState = StateBefore(last_ops[1].before)
    /\ CurrentState # UnapplyAll(Reverse(last_ops[1].mods), CurrentState)

\* C5: applying the batch of an iteration in order and then unapplying its
\* members in reverse order gives back the State the batch was applied to
\* (no external edit in between).
C5_UndoRedoSymmetry ==
    (InLoop /\ NoExternal(calls)) =>
        UnapplyAll(Reverse(new_modifications), CurrentState) = StateBefore(before)

C5_Witness ==
    /\ pc = "loop"
    /\ idx = Len(outcomes)
    /\ NoExternal(calls)
    /\ Len(new_modifications) = 2
    /\ Len(CursorMods(new_modifications)) = 2
    /\ new_modifications[1].new_cursor # before.cursor
    /\ new_modifications[2].old_cursor = new_modifications[1].new_cursor
    /\ new_modifications[2].new_cursor # new_modifications[1].new_cursor

\* C6: whenever the quit Command is dispatched, run() returns the reason
\* "quit" to its caller and no exception leaves run().
C6_QuitReturnsQuit ==
    (command.kind = "quit" /\ pc # "loop") =>
        (pc = "returned" /\ run_return = "quit" /\ error = "none")

\* C7: a raised stop signal unwinds to run(), which terminates: no later
\* outcome of the iteration is handled or applied, no batch is pushed and no
\* further iteration starts.
C7_StopSignalUnwinds ==
    /\ stop_reason # "none" => (pc = "returned" /\ error = "none" /\ run_return # "running")
    /\ \A i \in DOMAIN calls :
        (/\ calls[i].op = "handle"
         /\ calls[i].outcome.kind = "Quit"
         /\ calls[i].document_index < Len(documents)) => stop_reason = "quit"
    /\ stop_reason = "quit" =>
        /\ calls # <<>>
        /\ Last(calls).op = "handle"
        /\ Last(calls).outcome.kind = "Quit"
        /\ Len(HandleCalls(calls)) = idx
        /\ Ids(ApplyCallsIn(calls)) = Ids(new_modifications)
        /\ modification.kind = "None"
        /\ modification_history = before.history
        /\ modification_future = before.future

C7_Witness ==
    /\ stop_reason = "quit"
    /\ pc = "returned"
    /\ idx < Len(outcomes)
    /\ outcomes[idx + 1].kind = "SetCursor"

\* the variants no handler of the SnifyStepper chain recognizes
Unrecognized(outcome) == outcome.kind \notin {"Substitution", "Quit", "SetCursor"}

\* C8: an outcome no handler recognizes is fatal: the error leaves run()
\* (no stop reason, nothing skipped) and the Modifications of the iteration
\* are not pushed onto the history.
C8_UnhandledOutcomeIsFatal ==
    /\ \A i \in DOMAIN calls :
        (calls[i].op = "handle" /\ Unrecognized(calls[i].outcome)) =>
            /\ i = Len(calls)
            /\ pc = "crashed"
            /\ error # "none"
            /\ stop_reason = "none"
            /\ run_return = "running"
            /\ modification_history = before.history
            /\ modification_future = before.future
    /\ error = "NotImplementedError" =>
        /\ pc = "crashed"
        /\ calls # <<>>
        /\ Last(calls).op = "handle"
        /\ Unrecognized(Last(calls).outcome)

C8_Witness ==
    /\ pc = "crashed"
    /\ error = "NotImplementedError"
    /\ Len(new_modifications) = 1
    /\ modification_history # <<>>
    /\ modification_history = before.history

\* the handle call that returned the Modification of the apply call calls[i]
HandleCallOf(i) ==
    {j \in 1..(i - 1) : calls[j].op = "handle" /\ calls[j].id = calls[i].id}

\* C9: when the document was changed externally after the handler took the
\* snapshot old_text and before the substitution is applied, applying it
\* leaves the document contents as the external change left them.
C9_StaleWriteGuard ==
    \A i \in DOMAIN calls :
        calls[i].op = "apply" =>
            \A j \in HandleCallOf(i) :
                (/\ calls[j].outcome.kind = "Substitution"
                 /\ calls[i].docs_before[calls[j].document_index + 1].content # calls[j].content)
                    => calls[i].docs_after = calls[i].docs_before

C9_Witness ==
    /\ pc = "loop"
    /\ \E i \in DOMAIN calls :
        /\ calls[i].op = "apply"
        /\ calls[i].aborted
        /\ HandleCallOf(i) # {}
        /\ i > 1
        /\ calls[i - 1].op = "external"
        /\ documents = calls[i].docs_before

\* C10: a substitution whose write was aborted by the staleness check is in
\* no history batch after the iteration, and if it was the only Modification
\* of the iteration, history and future are unchanged.
C10_AbortedNotRecorded ==
    IterationDone =>
        \A i \in DOMAIN calls :
            (calls[i].op = "apply" /\ calls[i].aborted) =>
                /\ \A b \in DOMAIN modification_history :
                       \A j \in DOMAIN modification_history[b].mods :
                           modification_history[b].mods[j].id # calls[i].id
                /\ Len(new_modifications) = 1 =>
                       /\ modification_history = before.history
                       /\ modification_future = before.future

(***************************************************************************)
(* Dispatch.                                                               *)
(***************************************************************************)
\* C11: the Command executed for a line is the first one in collection order
\* whose matcher accepts the line; it is the only one executed, with that
\* line, and its outcomes are what dispatch returns.
C11_FirstMatchWins ==
    InLoop =>
        /\ dispatched.index \in DOMAIN collection
        /\ Accepts(collection[dispatched.index], dispatched.line)
        /\ \A j \in 1..(dispatched.index - 1) : ~Accepts(collection[j], dispatched.line)
        /\ command = collection[dispatched.index]
        /\ outcomes = Execute(command, StateBefore(before))
        /\ dispatched.error = ExecuteError(command, dispatched.line, current_annotation_choices)

C11_Witness ==
    /\ InLoop
    /\ \E j \in DOMAIN collection :
        /\ j > dispatched.index
        /\ Accepts(collection[j], dispatched.line)
        /\ Execute(collection[j], StateBefore(before)) # outcomes

\* C12: a line no matcher accepts executes no Command and changes neither
\* State, History nor Future; an error is reported and dispatch blocks for
\* input again; dispatch returns outcomes only for a line a matcher accepts.
C12_UnmatchedInputRecovered ==
    [][/\ (pc = "dispatch" /\ unmatched' # unmatched) =>
            /\ unmatched' = unmatched + 1
            /\ pc' = "dispatch"
            /\ UNCHANGED <<cursor, documents, modification_history, modification_future,
                           collection, command, outcomes, dispatched, new_modifications>>
       /\ (pc = "dispatch" /\ pc' = "loop") =>
            /\ \E i \in DOMAIN collection : Accepts(collection[i], dispatched'.line)
            /\ unmatched' = unmatched
       /\ (pc = "dispatch" /\ pc' = "dispatch") =>
            UNCHANGED <<command, outcomes, dispatched, modification_history,
                        modification_future, cursor>>]_vars

C12_Witness ==
    /\ pc = "loop"
    /\ unmatched > 0
    /\ outcomes # <<>>

EntriesInserted(log, key, symb) ==
    LET Hit(r) == r.key = key /\ r.symb = symb
        hits == SelectSeq(log, Hit)
    IN  [i \in DOMAIN hits |-> hits[i].verb]

\* the (symbol, entry) pairs inserted under key, in insertion order
PairsInserted(log, key) ==
    LET Hit(r) == r.key = key
        hits == SelectSeq(log, Hit)
    IN  [i \in DOMAIN hits |-> <<hits[i].symb, hits[i].verb>>]

\* the keys a lookup is tried with: every key up to one token longer than
\* the keys inserted
ProbeKeys == {<<>>} \cup SeqsUpTo(TrieTokens \cup { <<"x">> }, MaxKeyLen + 1)

\* C14: lookup(K)[S] is the list of the entries inserted under (K, S), in
\* insertion order with duplicates kept; S is in lookup(K) only if something
\* was inserted under (K, S).  (So an insert changes no other list.)
C14_TrieRoundTrip ==
    \A key \in ProbeKeys, symb \in Symbols :
        LET entries == EntriesInserted(inserted, key, symb)
            verbs == TrieGet(trie, key)
        IN  IF entries = <<>>
            THEN ~HasSymbol(verbs, symb)
            ELSE HasSymbol(verbs, symb) /\ VerbsOf(verbs, symb) = entries

C14_Witness ==
    \E key \in TrieKeys, symb \in Symbols :
        /\ key # <<>>
        /\ Len(inserted) = 3
        /\ inserted[1].key = key /\ inserted[1].symb = symb
        /\ inserted[2].key = key /\ inserted[2].symb # symb
        /\ inserted[3].key = key /\ inserted[3].symb = symb
        /\ inserted[3].verb # inserted[1].verb
        /\ VerbsOf(TrieGet(trie, key), symb) = <<inserted[1].verb, inserted[3].verb>>

\* C15: lookup(K) is the empty mapping for every K never inserted as a full
\* key, proper prefixes and proper extensions of inserted keys included.
C15_TrieMiss ==
    \A key \in ProbeKeys :
        (\A i \in DOMAIN inserted : inserted[i].key # key) => TrieGet(trie, key) = <<>>

C15_Witness ==
    \E i \in DOMAIN inserted :
        /\ Len(inserted[i].key) = 2
        /\ \A j \in DOMAIN inserted : inserted[j].key = inserted[i].key
        /\ TrieGet(trie, Front(inserted[i].key)) = <<>>
        /\ TrieGet(trie, Append(inserted[i].key, <<"b">>)) = <<>>
        /\ TrieGet(trie, inserted[i].key) # <<>>

\* a scan was recorded
Scanned == scanned.kind = "Scan"

Matched == Scanned /\ scanned.result.kind = "Match"

\* the window of k words from word i of the scanned text (tokens) is viable
ViableWindow(tokens, i, k) ==
    /\ i + k - 1 <= Len(tokens)
    /\ Candidates(trie, "en", scanned.text, tokens, i, k, scanned.ignore) # <<>>

\* the windows <<i, k>> of a text with these tokens
Windows(tokens) == {w \in (1..Len(tokens)) \X (1..Len(tokens)) : w[1] + w[2] - 1 <= Len(tokens)}

\* the window <<i, k>> is the one the scan returned
ReturnedWindow(tokens, i, k) ==
    /\ tokens[i].start = scanned.result.start
    /\ tokens[i + k - 1].end = scanned.result.stop

\* C16: among the viable windows at the start word of the returned match, the
\* returned one covers the most words.
C16_LeftmostLongest ==
    Matched =>
        LET tokens == Tokens(scanned.text)
        IN  /\ \E w \in Windows(tokens) :
                ReturnedWindow(tokens, w[1], w[2]) /\ ViableWindow(tokens, w[1], w[2])
            /\ \A w \in Windows(tokens) :
                (tokens[w[1]].start = scanned.result.start /\ ViableWindow(tokens, w[1], w[2]))
                    => tokens[w[1] + w[2] - 1].end <= scanned.result.stop

\* "x b b" with "b" and "b b" in the catalog: the 2-word match at the first "b"
C16_Witness ==
    /\ Matched
    /\ scanned.text = <<"x", " ", "b", " ", "b">>
    /\ scanned.ignore = NoIgnore
    /\ ViableWindow(Tokens(scanned.text), 2, 1)
    /\ ViableWindow(Tokens(scanned.text), 2, 2)
    /\ scanned.result.start = 2
    /\ scanned.result.stop = 5

\* C17: the start offset of the returned match is the smallest start offset
\* of all viable windows, also when a later start offers a longer match.
C17_EarliestWins ==
    Matched =>
        LET tokens == Tokens(scanned.text)
        IN  \A w \in Windows(tokens) :
                ViableWindow(tokens, w[1], w[2]) => scanned.result.start <= tokens[w[1]].start

C17_Witness ==
    /\ Matched
    /\ scanned.text = <<"x", " ", "b", " ", "b">>
    /\ ViableWindow(Tokens(scanned.text), 1, 1)
    /\ ~ViableWindow(Tokens(scanned.text), 1, 2)
    /\ ViableWindow(Tokens(scanned.text), 2, 2)
    /\ scanned.result.start = 0
    /\ scanned.result.stop = 1

\* C18: the scan returns None exactly when no start word begins a stemmed
\* word sequence that is a full key of the Trie with a non-empty candidate
\* list; so it does for a text with no such sequence and for the empty text.
C18_NoMatch ==
    Scanned =>
        LET tokens == Tokens(scanned.text)
        IN  /\ (scanned.result.kind = "None")
                    <=> (\A w \in Windows(tokens) : ~ViableWindow(tokens, w[1], w[2]))
            /\ scanned.text = <<>> => scanned.result.kind = "None"
            /\ (\A w \in Windows(tokens) :
                    TrieGet(trie, KeyAt(tokens, w[1], w[2], "en")) = <<>>)
                => scanned.result.kind = "None"

C18_Witness ==
    /\ Scanned
    /\ scanned.result.kind = "None"
    /\ scanned.text = <<"b", "s", " ", "x">>
    /\ scanned.ignore = NoIgnore
    /\ TrieGet(trie, <<<<"b">>, <<"b">>>>) # <<>>
    /\ TrieGet(trie, <<>>) # <<>>

\* the scan of the same text with no symbol ignored
PlainScan ==
    FindFirstMatch(trie, "en", scanned.text, [scanned.ignore EXCEPT !.symbols = {}])

\* every candidate symbol of the match m is in symbols_to_ignore
FullyIgnored(m) ==
    m.kind = "Match" /\ \A i \in DOMAIN m.options : m.options[i][1] \in scanned.ignore.symbols

\* C19: no returned option list is empty or holds an ignored symbol; when
\* every candidate symbol of the phrase that would match is ignored, the scan
\* returns None or a shorter match at the same start or a match at a later
\* start, and None only when no window is viable.
C19_IgnoreSuppresses ==
    Scanned =>
        /\ Matched =>
            /\ scanned.result.options # <<>>
            /\ \A i \in DOMAIN scanned.result.options :
                   scanned.result.options[i][1] \notin scanned.ignore.symbols
        /\ FullyIgnored(PlainScan) =>
            \/ /\ scanned.result.kind = "None"
               /\ \A w \in Windows(Tokens(scanned.text)) :
                      ~ViableWindow(Tokens(scanned.text), w[1], w[2])
            \/ /\ scanned.result.kind = "Match"
               /\ \/ scanned.result.start > PlainScan.start
                  \/ /\ scanned.result.start = PlainScan.start
                     /\ scanned.result.stop < PlainScan.stop

C19_Witness ==
    /\ Matched
    /\ scanned.ignore.symbols = {"sym1"}
    /\ FullyIgnored(PlainScan)
    /\ scanned.result.start = PlainScan.start
    /\ scanned.result.stop < PlainScan.stop

\* the key of the Trie node of the returned match
WinningKey ==
    LET tokens == Tokens(scanned.text)
        w == CHOOSE w \in Windows(tokens) : ReturnedWindow(tokens, w[1], w[2])
    IN  KeyAt(tokens, w[1], w[2], "en")

\* the symbols inserted under key, in the order of their first insertion
RECURSIVE SymbolsInserted(_, _)
SymbolsInserted(log, key) ==
    IF log = <<>> THEN <<>>
    ELSE LET rest == SymbolsInserted(Front(log), key)
         IN  IF Last(log).key = key /\ \A i \in DOMAIN rest : rest[i] # Last(log).symb
             THEN Append(rest, Last(log).symb)
             ELSE rest

\* the (symbol, entry) pairs inserted under key, symbol by symbol
RECURSIVE PairsBySymbol(_, _, _)
PairsBySymbol(symbs, log, key) ==
    IF symbs = <<>> THEN <<>>
    ELSE PairsBySymbol(Front(symbs), log, key)
         \o [j \in DOMAIN EntriesInserted(log, key, Last(symbs)) |->
                <<Last(symbs), EntriesInserted(log, key, Last(symbs))[j]>>]

NotIgnored(symb) == symb \notin scanned.ignore.symbols

NotIgnoredPair(pair) == pair[1] \notin scanned.ignore.symbols

RescanHandled ==
    /\ calls # <<>>
    /\ Last(calls).op = "handle"
    /\ Last(calls).outcome.kind = "Rescan"

\* C21 as stated: once a rescan outcome has been handled the cached Catalogs
\* are dropped, so that the next lookup builds them again, and the run
\* continues.
C21_RescanInvalidatesCatalogs ==
    RescanHandled =>
        /\ pc \notin {"crashed", "returned"}
        /\ error = "none"
        /\ stex_catalogs = NotCached

\* C22: the Catalogs are built lazily and at most once: nothing is built
\* before the first lookup, the first lookup builds them, and however many
\* lookups follow (one per scanned document, one per command collection) and
\* whatever happens to the catalog source meanwhile, the source is enumerated
\* once and every lookup returns the Catalog set built then.
C22_CatalogsBuiltOnceLazily ==
    /\ catalog_builds <= 1
    /\ iterations = 0 => catalog_builds = 0
    /\ (catalog_builds = 0) <=> (stex_catalogs = NotCached)
    /\ (catalog_builds = 0) <=> (returned_catalogs = {})
    /\ Cardinality(returned_catalogs) <= 1
    /\ stex_catalogs # NotCached => returned_catalogs = {stex_catalogs.value}

C22_Witness ==
    /\ iterations = 2
    /\ pc = "dispatch"
    /\ catalog_builds = 1
    /\ stex_catalogs # NotCached
    /\ LocalFlamsStexCatalogs(catalog_source) # stex_catalogs.value
    /\ Len(documents) = 2

\* isinstance(outcome, ...) of the handler: the variant it recognizes
Recognizes(handler, outcome) ==
    CASE handler = "SnifyStepper"           -> outcome.kind = "Substitution"
      [] handler = "QuittableStepper"       -> outcome.kind = "Quit"
      [] handler = "CursorModifyingStepper" -> outcome.kind = "SetCursor"
      [] handler = "Stepper"                -> FALSE

\* what the claim says of the handling recorded as h
ConsumedByFirstRecognizer(h) ==
    LET n == Len(h.entered)
    IN  /\ h.entered = SubSeq(HandlerChain, 1, n)
        /\ h.by = h.entered[n]
        /\ \A j \in 1..(n - 1) : ~Recognizes(h.entered[j], h.outcome)
        /\ Recognizes(h.by, h.outcome) \/ h.by = "Stepper"
        /\ h.outcome.kind = "Substitution" =>
               /\ h.by = "SnifyStepper"
               /\ h.raised = "none"
               /\ h.id # 0
               /\ h.modification =
                      DocumentModification(h.id, h.document_index, h.content,
                                           Substitute(h.content, h.outcome))
        /\ h.outcome.kind = "SetCursor" =>
               /\ h.by = "CursorModifyingStepper"
               /\ h.raised = "none"
               /\ h.id # 0
               /\ h.modification = CursorModification(h.id, h.cursor, h.outcome.new_cursor)
        /\ h.outcome.kind = "Quit" =>
               /\ h.by = "QuittableStepper"
               /\ h.raised = "StopStepper"
               /\ h.id = 0
               /\ h.modification = None
        /\ Unrecognized(h.outcome) =>
               /\ h.by = "Stepper"
               /\ h.raised = "NotImplementedError"
               /\ h.modification = None

\* the State had a current document when the outcome of h was handled
HadCurrentDocument(h) == h.document_index < Len(documents)

IterationOrder ==
    <<"ensure_state_up_to_date", "show_current_state", "get_current_command_collection",
      "dispatch">>

\* C24: the steps of an iteration occur in the order ensure_state_up_to_date,
\* show_current_state, get_current_command_collection, dispatch, then the
\* handling of the outcomes (each Modification applied right after its
\* handling), then the recording; and the collection that is dispatched was
\* constructed in this very iteration, from the State as
\* ensure_state_up_to_date left it.
C24_IterationOrder ==
    /\ \A i \in DOMAIN steps :
        /\ i <= 4 => steps[i] = IterationOrder[i]
        /\ i > 4 => steps[i] \in {"handle_command_outcome", "apply", "record"}
        /\ steps[i] = "apply" => steps[i - 1] = "handle_command_outcome"
        /\ steps[i] = "record" => i = Len(steps)
    /\ pc = "show" => steps = SubSeq(IterationOrder, 1, 1)
    /\ pc = "commands" => steps = SubSeq(IterationOrder, 1, 2)
    /\ pc = "dispatch" =>
        /\ steps = SubSeq(IterationOrder, 1, 3)
        /\ collection_built.iteration = iterations
        /\ collection_built.cursor = cursor
        /\ collection_built.options = current_annotation_choices
    /\ pc \in {"loop", "apply"} =>
        /\ SubSeq(steps, 1, 4) = IterationOrder
        /\ collection_built.iteration = iterations
        /\ collection_built.cursor = before.cursor
        /\ dispatched.iteration = iterations
        /\ dispatched.built_in = iterations

C24_Witness ==
    /\ iterations = 2
    /\ pc = "apply"
    /\ steps = IterationOrder \o <<"handle_command_outcome", "apply", "handle_command_outcome">>
    /\ collection_built.iteration = 2
    /\ last_ops # <<>>
    /\ last_ops[1].op = "iteration"
    /\ last_ops[1].before.cursor # collection_built.cursor

\* the terminal events that leaving the info page adds to what was output
\* when the block was left: the buffered text through the pager, or the
\* confirmation prompt and the wait for input
FlushedAndPaused(exit, iface) ==
    LET at == Len(exit.before.output)
    IN  IF iface.kind = "console"
        THEN /\ Len(iface.output) > at
             /\ iface.output[at + 1] = Pager(exit.before.big_infopage_content)
        ELSE /\ Len(iface.output) > at + 1
             /\ iface.output[at + 1] = Echo("Press Enter to continue...")
             /\ iface.output[at + 2] = Input

\* C25 as stated: however the body of a big info page was left, by completing
\* or by raising, the buffered output has been flushed and the pause has
\* happened, the interface is outside the info-page mode afterwards, and a
\* later acquisition succeeds.
C25_FlushAndPauseOnExit ==
    /\ last_exit.kind = "Exit" => FlushedAndPaused(last_exit, interface)
    /\ page = "outside" => ~interface.in_big_infopage
    /\ acquire_error = "none"

\* C26 as stated: the State a focus Command hands to the sub-session shares
\* no document object with the original State, so the contents seen through
\* the original State's documents are still those of the moment the Command
\* was executed, whatever the sub-session has written through its State.
C26_FocusStateDoesNotAlias ==
    new_state.kind = "SnifyState" =>
        /\ \A i \in DOMAIN new_state.documents, j \in DOMAIN state_documents :
               new_state.documents[i] # state_documents[j]
        /\ [j \in DOMAIN state_documents |-> heap[state_documents[j]].content]
               = new_state.contents

(***************************************************************************)
(* Who changes the documents.                                              *)
(***************************************************************************)
\* the step of _single_iteration that was just taken
StepTaken(step) == steps' # steps /\ Last(steps') = step

\* the steps of an iteration other than the apply of a Modification
StepsThatOnlyRead ==
    {"ensure_state_up_to_date", "show_current_state", "get_current_command_collection",
     "dispatch", "handle_command_outcome", "record"}

\* an undo or a redo was just taken, and its batch holds a substitution
UndoRedoOfSubstitution ==
    /\ undo_redos' # undo_redos
    /\ \E i \in DOMAIN Last(last_ops').mods : Last(last_ops').mods[i].kind = "doc"

\* C27: the content of the documents is changed by the stepper only in the
\* apply step of a substitution Modification (in an iteration or a redo) or
\* in its unapply step (in an undo); every other step of an iteration leaves
\* the documents as they were, and show_current_state also leaves the cursor
\* as it was.  The only other change is the one of the external process.
C27_ContentChangesOnlyInModifications ==
    [][ /\ \A step \in StepsThatOnlyRead : StepTaken(step) => documents' = documents
        /\ StepTaken("show_current_state") => cursor' = cursor
        /\ (StepTaken("apply") /\ documents' # documents) => modification.kind = "doc"
        /\ documents' # documents =>
               \/ StepTaken("apply")
               \/ UndoRedoOfSubstitution
               \/ external_edits' # external_edits ]_vars

C27_Witness ==
    /\ pc = "loop"
    /\ \E i \in DOMAIN steps : steps[i] = "show_current_state"
    /\ \E i, j \in DOMAIN calls :
        /\ calls[i].op = "apply" /\ calls[i].docs_after = calls[i].docs_before
        /\ calls[j].op = "apply" /\ calls[j].docs_after # calls[j].docs_before

(***************************************************************************)
(* The end of the run when nothing is left to annotate.                    *)
(***************************************************************************)
\* the catalogs ensure_state_up_to_date is about to look up
CatalogsInUse == GetStexCatalogs(stex_catalogs, catalog_source).value

\* the documents from the cursor's document on
Remaining == {d \in 0..(Len(documents) - 1) : d >= cursor.document_index}

\* no document from the cursor's document on that has a catalog contains a
\* match at or after the cursor
NothingLeft ==
    \A d \in Remaining :
        HasCatalog(CatalogsInUse, DocumentAt(documents, d)) =>
            MatchInDocument(CatalogsInUse, DocumentAt(documents, d),
                            IF d = cursor.document_index THEN cursor.selection[1] ELSE 0).kind
                = "None"

\* the documents from the cursor's document on that have no catalog
RemainingWithoutCatalog ==
    {d \in Remaining : ~HasCatalog(CatalogsInUse, DocumentAt(documents, d))}

\* ensure_state_up_to_date ended the run with 'done': the cursor is as it
\* was, and nothing was rendered and no command collection was built
EndsWithDone ==
    /\ pc' = "returned"
    /\ stop_reason' = "done"
    /\ cursor' = cursor
    /\ steps' = <<"ensure_state_up_to_date">>
    /\ collection_built' = collection_built

\* C28 as stated: when ensure_state_up_to_date starts with a single-offset
\* cursor and nothing is left to annotate, it raises 'done' after awaiting
\* exactly one confirmation, with the cursor unchanged and without a render
\* or a command collection in that iteration.
C28_DoneAfterOneConfirmation ==
    [][ (StepTaken("ensure_state_up_to_date") /\ IsOffset(cursor.selection) /\ NothingLeft)
            => (EndsWithDone /\ confirmations' = 1) ]_vars

\* C28, amended: as above, but the number of confirmations awaited is one
\* for the final message plus one for every document from the cursor's
\* document on that has no catalog.
C28_DoneAfterConfirmations ==
    [][ (StepTaken("ensure_state_up_to_date") /\ IsOffset(cursor.selection) /\ NothingLeft)
            => (EndsWithDone /\ confirmations' = 1 + Cardinality(RemainingWithoutCatalog)) ]_vars

C28_Witness ==
    /\ pc = "returned"
    /\ stop_reason = "done"
    /\ steps = <<"ensure_state_up_to_date">>
    /\ cursor = SnifyCursor(1, <<0>>)
    /\ Len(documents) = 3
    /\ confirmations = 2

(***************************************************************************)
(* The session after the run.                                              *)
(***************************************************************************)
\* C29 as stated: once snify() has dealt with the session after run(), the
\* session was stored if the run ended because the user quit, and the
\* loaded session was deleted if it ended for any other reason.
C29_StopReasonDecidesSession ==
    session # "pending" =>
        /\ stop_reason = "quit" => session = "stored"
        /\ stop_reason # "quit" => session = "deleted"

(***************************************************************************)
(* The snapshot of a substitution.                                         *)
(***************************************************************************)
\* no Modification of the batch has changed a document before the call calls[i]
OnlyExternalChangesBefore(i) ==
    \A k \in 1..(i - 1) :
        calls[k].op = "apply" => calls[k].docs_after = calls[k].docs_before

\* C30 as stated: when the document a substitution outcome is about was
\* changed externally after the Command created the outcome, the apply of
\* its Modification is aborted and writes nothing.
C30_SnapshotAtOutcomeCreation ==
    \A i \in DOMAIN calls :
        (calls[i].op = "apply" /\ OnlyExternalChangesBefore(i)) =>
            \A j \in HandleCallOf(i) :
                (/\ calls[j].outcome.kind = "Substitution"
                 /\ calls[i].docs_before[calls[j].document_index + 1].content
                        # before.documents[calls[j].document_index + 1].content)
                    => (calls[i].aborted /\ calls[i].docs_after = calls[i].docs_before)

(***************************************************************************)
(* The cursor at rendering and dispatch time.                              *)
(***************************************************************************)
\* C31: after ensure_state_up_to_date has returned normally, that is when the
\* state is rendered, the command collection built and a Command executed,
\* the cursor holds a range selection of an existing document; so
\* get_current_document succeeds, the assertion of SkipCommand.execute holds,
\* and the run never ends with an exception, whatever sequence of skip,
\* exit-file and no-op Commands the user issues from the cursor (0, 0).
C31_CursorResolvedAfterEnsure ==
    /\ pc \in {"show", "commands", "dispatch"} =>
        /\ Len(cursor.selection) = 2
        /\ cursor.document_index \in 0..(Len(documents) - 1)
        /\ GetCurrentDocumentError(cursor, documents) = "none"
        /\ SkipAssertion(CurrentState)
    /\ pc # "crashed"

C31_Witness ==
    /\ pc = "dispatch"
    /\ iterations = 3
    /\ cursor.document_index = 1
    /\ command.kind = "exit_file"
    /\ SkipAssertion(CurrentState)

(***************************************************************************)
(* Progress of skip.                                                       *)
(***************************************************************************)
\* the selection the user saw when the Command of this iteration was executed
Presented == before.cursor

\* the cursor is the unresolved offset just after the end of the selection sel
SkippedPast(cur, sel) ==
    cur = SnifyCursor(sel.document_index, <<sel.selection[2] + 1>>)

\* the selection next lies after the selection sel: in a later document, or in
\* the same document from an offset after the end of sel
LiesAfter(next, sel) ==
    \/ next.document_index > sel.document_index
    \/ /\ next.document_index = sel.document_index
       /\ next.selection[1] >= sel.selection[2] + 1

\* C32: applying the cursor Modification of a skip leaves the cursor at the
\* unresolved offset b+1 of the document of the skipped selection (d, (a, b));
\* the selection the next ensure_state_up_to_date presents lies after the
\* skipped one, so it is a different selection; and a user who only issues
\* skip and exit-file Commands eventually reaches the stop with reason 'done'.
C32_SkipMakesProgress ==
    /\ [][ /\ (StepTaken("apply") /\ command.kind = "skip") => SkippedPast(cursor', Presented)
           /\ (StepTaken("ensure_state_up_to_date") /\ command.kind = "skip" /\ pc' = "show")
                  => (LiesAfter(cursor', Presented) /\ cursor' # Presented) ]_vars
    /\ <>(pc = "returned" /\ stop_reason = "done")

C32_Witness ==
    /\ pc = "show"
    /\ command.kind = "skip"
    /\ cursor.document_index = Presented.document_index
    /\ LiesAfter(cursor, Presented)
    /\ iterations = 2

(***************************************************************************)
(* The target ensure_state_up_to_date resolves the cursor to.              *)
(***************************************************************************)
\* the offset the scan of document d starts from
OffsetIn(d) == IF d = cursor.document_index THEN cursor.selection[1] ELSE 0

\* the match of the k-th segment of document d, from the offset on
MatchOfSegment(d, k) ==
    LET doc == DocumentAt(documents, d)
    IN  SegmentMatch(CatalogsInUse[doc.language], doc.language, doc.content,
                     Segments(doc.content)[k], OffsetIn(d))

\* the segments of document d that end after the offset and have a match
SegmentsWithMatch(d) ==
    {k \in DOMAIN Segments(DocumentAt(documents, d).content) :
        /\ Segments(DocumentAt(documents, d).content)[k].end > OffsetIn(d)
        /\ MatchOfSegment(d, k).kind = "Match"}

\* document d has a catalog and a match at or after the offset
IsTarget(d) ==
    /\ HasCatalog(CatalogsInUse, DocumentAt(documents, d))
    /\ SegmentsWithMatch(d) # {}

\* the match of the first segment of document d that has one
FirstTargetMatch(d) ==
    MatchOfSegment(d, CHOOSE k \in SegmentsWithMatch(d) :
                          \A other \in SegmentsWithMatch(d) : k <= other)

\* C33: ensure_state_up_to_date changes nothing when the cursor holds a range;
\* for an offset cursor it resolves the cursor whenever one of the documents
\* from the cursor's on has a catalog and a match at or after the offset, the
\* new document is the first such document (documents without a catalog are
\* passed over), the selection is the first match of the first segment that
\* has one, and current_annotation_choices are the options of that match.
C33_EarliestTarget ==
    [][ StepTaken("ensure_state_up_to_date") =>
            /\ ~IsOffset(cursor.selection) =>
                   /\ cursor' = cursor
                   /\ current_annotation_choices' = current_annotation_choices
                   /\ pc' = "show"
            /\ (IsOffset(cursor.selection) /\ \E d \in Remaining : IsTarget(d)) => pc' = "show"
            /\ (IsOffset(cursor.selection) /\ pc' = "show") =>
                   /\ cursor'.document_index \in Remaining
                   /\ IsTarget(cursor'.document_index)
                   /\ \A d \in Remaining : d < cursor'.document_index => ~IsTarget(d)
                   /\ cursor'.selection = FirstTargetMatch(cursor'.document_index).selection
                   /\ current_annotation_choices'
                          = FirstTargetMatch(cursor'.document_index).options ]_vars

C33_Witness ==
    /\ pc = "show"
    /\ iterations = 2
    /\ Len(documents) = 2
    /\ ~HasCatalog(CatalogsInUse, DocumentAt(documents, 0))
    /\ cursor = SnifyCursor(1, <<4, 5>>)
    /\ current_annotation_choices # <<>>

(***************************************************************************)
(* What the history holds of the changes applied.                          *)
(***************************************************************************)
\* the Modifications applied to the state so far: every Modification a
\* handler returned has been applied when no apply is pending
AppliedIds == 1..(next_id - 1)

\* the History batches that hold the Modification id
BatchesHolding(id) ==
    {b \in DOMAIN modification_history :
        \E j \in DOMAIN modification_history[b].mods :
            modification_history[b].mods[j].id = id}

\* C34 as stated: at an iteration boundary and after run() has ended, by a
\* stop signal or by a fatal error, every Modification that was applied
\* during the run is a member of exactly one History batch.
C34_NoAppliedChangeLost ==
    pc \in {"ensure", "returned", "crashed"} =>
        \A id \in AppliedIds : Cardinality(BatchesHolding(id)) = 1

(***************************************************************************)
(* ImportCommand: the main substitution of an import and the substitutions *)
(* that remove the imports it makes redundant.  ImportSpec constructs one  *)
(* ImportCommand over a single document, executes it and lets the loop of  *)
(* _single_iteration handle and apply what it returned.                    *)
(***************************************************************************)
MaxRedundancies == 2
MaxImports == 2

\* the content of the document an import is made into
ImportContent == <<"a", "b", "c">>

ImportTexts == { <<>>, <<"u", "v">> }

\* the ranges [start_pos, end_pos) of the content
ImportRanges ==
    { range \in (0..Len(ImportContent)) \X (0..Len(ImportContent)) : range[1] <= range[2] }

\* the substitutions an ImportCommand may be constructed with
ImportOutcomes ==
    { SubstitutionOutcome(new_str, range[1], range[2]) :
          new_str \in ImportTexts, range \in ImportRanges }

\* ImportCommand(letter, ..., outcome, redundancies)
ImportCommand(outcome, redundancies) ==
    [kind |-> "import", outcome |-> outcome, redundancies |-> redundancies]

ImportCommands ==
    { ImportCommand(outcome, redundancies) :
          outcome \in ImportOutcomes,
          redundancies \in {<<>>} \cup SeqsUpTo(ImportOutcomes, MaxRedundancies) }

\* one step of list.sort(key=start_pos, reverse=True): x, which followed the
\* elements of the list in the input, comes after all that are not smaller
InsertByStartPos(sorted, x) ==
    LET k == Cardinality({i \in DOMAIN sorted : sorted[i].start_pos >= x.start_pos})
    IN  Take(sorted, k) \o <<x>> \o Drop(sorted, k)

\* cmds.sort(key=lambda x: x.start_pos, reverse=True): a stable sort, equal
\* keys keep the order they had
RECURSIVE SortByStartPos(_)
SortByStartPos(cmds) ==
    IF cmds = <<>> THEN <<>>
    ELSE InsertByStartPos(SortByStartPos(Front(cmds)), Last(cmds))

\* an execute that sorts without reverse=True
RECURSIVE SortAscending(_)
SortAscending(cmds) ==
    IF cmds = <<>> THEN <<>>
    ELSE LET sorted == SortAscending(Front(cmds))
             k == Cardinality({i \in DOMAIN sorted : sorted[i].start_pos <= Last(cmds).start_pos})
         IN  Take(sorted, k) \o <<Last(cmds)>> \o Drop(sorted, k)

ImportExecuteAscending(self) ==
    [returned |-> SortAscending(self.redundancies \o <<self.outcome>>), self |-> self]

\* ImportCommand.execute: what it returns and the command object afterwards
ImportExecute(self) ==
    [returned |-> SortByStartPos(self.redundancies \o <<self.outcome>>), self |-> self]

ImportInit ==
    /\ cursor = SnifyCursor(0, <<0, 1>>)
    /\ documents = << Document(ImportContent, "en") >>
    /\ interface = MinimalInterface
    /\ Constructed
    /\ Allocated

\* the collection of the iteration is given an ImportCommand
NewImportCommand ==
    /\ pc = "ensure"
    /\ command = None
    /\ command' \in ImportCommands
    /\ pc' = "dispatch"
    /\ UNCHANGED <<cursor, documents, current_annotation_choices, modification_history,
                   modification_future, outcomes, idx, new_modifications, modification,
                   stop_reason, error, run_return, calls, next_id, next_stamp, before,
                   last_ops, iterations, undo_redos, external_edits, steps>>
    /\ UNCHANGED <<dispatch_vars, catalog_vars, cache_vars, collection_built,
                   confirmations, aux_vars>>

\* line 65: outcomes = command.execute(call), for the ImportCommand
ImportDispatch ==
    /\ pc \in {"dispatch", "ensure"}
    /\ command # None
    /\ iterations < MaxImports
    /\ LET result == ImportExecute(command)
       IN  /\ outcomes' = result.returned
           /\ command' = result.self
           /\ dispatched' = IF dispatched = None
                            THEN [constructed |-> command, returned |-> result.returned]
                            ELSE dispatched
    /\ iterations' = iterations + 1
    /\ idx' = 0
    /\ new_modifications' = <<>>
    /\ calls' = <<>>
    /\ before' = Snapshot
    /\ pc' = "loop"
    /\ steps' = StepsAppend(<<>>, "dispatch")
    /\ UNCHANGED <<cursor, documents, current_annotation_choices, modification_history,
                   modification_future, modification, stop_reason, error, run_return,
                   next_id, next_stamp, last_ops, undo_redos, external_edits,
                   collection, unmatched>>
    /\ UNCHANGED <<catalog_vars, cache_vars, collection_built, confirmations, aux_vars>>

ImportNext ==
    \/ NewImportCommand
    \/ ImportDispatch
    \/ HandleOutcome
    \/ ApplyOutcome
    \/ RecordBatch

ImportSpec == ImportInit /\ [][ImportNext]_vars

\* the list ImportCommand.execute sorts
ImportList == command.redundancies \o <<command.outcome>>

Occurrences(seq, x) == Cardinality({i \in DOMAIN seq : seq[i] = x})

\* two ranges [start_pos, end_pos) that have a position in common
Overlap(a, b) == a.start_pos < b.end_pos /\ b.start_pos < a.end_pos

PairwiseNonOverlapping(outs) ==
    \A i, j \in DOMAIN outs : i # j => ~Overlap(outs[i], outs[j])

RangesOf(outs, content) ==
    \A i \in DOMAIN outs :
        outs[i].start_pos <= outs[i].end_pos /\ outs[i].end_pos <= Len(content)

\* at most one text is inserted (by an empty range) at any one position
OneInsertionPerPosition(outs) ==
    \A i, j \in DOMAIN outs :
        (i # j /\ outs[i].start_pos = outs[i].end_pos /\ outs[j].start_pos = outs[j].end_pos)
            => outs[i].start_pos # outs[j].start_pos

\* an empty range listed before another range that starts where it lies
InsertionListedFirst(outs) ==
    \E i, j \in DOMAIN outs :
        i < j /\ outs[i].start_pos = outs[i].end_pos /\ outs[j].start_pos = outs[i].start_pos

\* all substitutions performed at once on the original content, read from
\* position i on: the text inserted at i, then the text replacing the range
\* that starts at i, or else the character at i
RECURSIVE Simultaneous(_, _, _)
Simultaneous(content, outs, i) ==
    LET here == {k \in DOMAIN outs : outs[k].start_pos = i}
        insertions == {k \in here : outs[k].end_pos = i}
        replacements == {k \in here : outs[k].end_pos > i}
        inserted_text == IF insertions = {} THEN <<>>
                         ELSE outs[CHOOSE k \in insertions : TRUE].new_str
    IN  IF i >= Len(content) THEN inserted_text
        ELSE IF replacements # {}
        THEN inserted_text \o outs[CHOOSE k \in replacements : TRUE].new_str
             \o Simultaneous(content, outs, outs[CHOOSE k \in replacements : TRUE].end_pos)
        ELSE inserted_text \o <<content[i + 1]>> \o Simultaneous(content, outs, i + 1)

\* what execute returned is the list of the command in non-increasing order
\* of start_pos, and the command is as it was constructed
ImportOrdered ==
    (command # None /\ dispatched # None) =>
        /\ \A i \in 1..(Len(outcomes) - 1) : outcomes[i].start_pos >= outcomes[i + 1].start_pos
        /\ Len(outcomes) = Len(ImportList)
        /\ \A i \in DOMAIN ImportList :
               Occurrences(outcomes, ImportList[i]) = Occurrences(ImportList, ImportList[i])
        /\ command = dispatched.constructed
        /\ outcomes = dispatched.returned

\* the ranges the equivalence is claimed for, in the content the iteration began with
ImportRangesDisjoint ==
    /\ RangesOf(outcomes, before.documents[1].content)
    /\ PairwiseNonOverlapping(outcomes)
    /\ OneInsertionPerPosition(outcomes)

ImportedAtOnce ==
    documents[1].content = Simultaneous(before.documents[1].content, outcomes, 0)

\* C35 (as stated): ImportCommand.execute returns the main substitution and
\* the redundancies in non-increasing order of start_pos and leaves the
\* command unchanged, so that a repeated execution returns the same sequence;
\* and for pairwise non-overlapping ranges, handling and applying the
\* outcomes one after the other leaves the document that all substitutions
\* performed at once on the original content give
C35_SequentialIsSimultaneous ==
    /\ ImportOrdered
    /\ (IterationDone /\ command # None /\ ImportRangesDisjoint) => ImportedAtOnce

\* C35 (amended): the same, for pairwise non-overlapping ranges of which no
\* empty one is listed, in redundancies + [outcome], before another range
\* that starts at its position
C35_SequentialIsSimultaneousOrdered ==
    /\ ImportOrdered
    /\ (IterationDone /\ command # None /\ ImportRangesDisjoint
            /\ ~InsertionListedFirst(ImportList)) => ImportedAtOnce

\* an import executed twice whose first execution inserted at the start of a
\* range that was replaced
C35_Witness ==
    /\ IterationDone
    /\ command # None
    /\ iterations = 2
    /\ Len(outcomes) = 3
    /\ ImportOrdered
    /\ ImportRangesDisjoint
    /\ ~InsertionListedFirst(ImportList)
    /\ \E i, j \in DOMAIN outcomes :
           /\ i < j
           /\ outcomes[i].start_pos = outcomes[j].start_pos
           /\ outcomes[j].new_str # <<>>
    /\ documents[1].content # before.documents[1].content
    /\ ImportedAtOnce

\* C36: the State that StemFocusCommand.execute hands to the sub-session is
\* well-formed: the document_index of its cursor is an index into its list
\* of one document, and get_current_document on it returns the document
\* object that was current in the original State.
C36_FocusStateWellFormed ==
    (new_state.kind = "SnifyState" /\ new_state.command = "f") =>
        /\ Len(new_state.documents) = 1
        /\ new_state.cursor.document_index < Len(new_state.documents)
        /\ CurrentDocumentObject(new_state.cursor, new_state.documents)
               = CurrentDocumentObject(cursor, state_documents)
====
